---------------------------- MODULE Spec2Model ----------------------------
(***************************************************************************)
(* Model of the nutrition resolution pipeline of the voice food logger     *)
(* backend: the quantity parsers, the USDA -> local -> not-found lookup     *)
(* chain (shared/processing.py, shared/usda_client.py), the meal time      *)
(* classifier (shared/meal_detection.py), the daily log files (storage.py),*)
(* the food_entries, user_goals and weight_entries tables                  *)
(* (shared/supabase_storage.py) and the handlers of api/ that edit and     *)
(* aggregate them.  The data store is taken to be reachable: the handlers' *)
(* branches for a failed connection are not modelled.                      *)
(*                                                                         *)
(* Conventions.  A Python str is a sequence of one-character strings.      *)
(* A Python float is an exact decimal in fixed point: quantities and gram  *)
(* values are integers counting thousandths (150 g is 150000), protein,    *)
(* carbohydrate and fat values are integers counting tenths of a gram      *)
(* (46.5 g is 465), calories are integers.  round() is Python's            *)
(* round-half-to-even on the exact value; binary floating point error is   *)
(* not modelled.                                                           *)
(***************************************************************************)
EXTENDS Integers, Sequences, FiniteSets, TLC

(***************************************************************************)
(* Bounds of the model.                                                    *)
(***************************************************************************)
\* Frames the interpreter allows on the call stack before RecursionError.
StackLimit == 7
\* Entries store_food_data writes to the log files in one run.
MaxStored == 2
\* Consecutive calls of _calculate_daily_totals between two writes.
MaxRecounts == 2
\* Rows store_food_data inserts into food_entries in one run.
MaxRows == 2
\* Foods in one search response given to the preference filter.
MaxFoods == 3
\* Entries of a nutrition table of the local lookup.
MaxTable == 3
\* Weight entries POST /api/weight-entries stores in one run.
MaxWeights == 2

(***************************************************************************)
(* Text helpers: str.lower(), str.strip(), the `in` operator on strings.   *)
(***************************************************************************)
UpperChars == <<"A","B","C","D","E","F","G","H","I","J","K","L","M",
                "N","O","P","Q","R","S","T","U","V","W","X","Y","Z">>
LowerChars == <<"a","b","c","d","e","f","g","h","i","j","k","l","m",
                "n","o","p","q","r","s","t","u","v","w","x","y","z">>

LowerChar(c) ==
    IF \E i \in 1..26 : UpperChars[i] = c
    THEN LowerChars[CHOOSE i \in 1..26 : UpperChars[i] = c]
    ELSE c

Lower(s) == [i \in 1..Len(s) |-> LowerChar(s[i])]

Strip(s) ==
    IF \A i \in 1..Len(s) : s[i] = " "
    THEN << >>
    ELSE LET a == CHOOSE i \in 1..Len(s) :
                     s[i] # " " /\ \A k \in 1..(i-1) : s[k] = " "
             b == CHOOSE i \in 1..Len(s) :
                     s[i] # " " /\ \A k \in (i+1)..Len(s) : s[k] = " "
         IN  SubSeq(s, a, b)

\* Python `t in s` for strings.
Contains(s, t) ==
    \E i \in 1..(Len(s) - Len(t) + 1) : SubSeq(s, i, i + Len(t) - 1) = t

(***************************************************************************)
(* Number helpers: float(token), f"{x}", round().                          *)
(***************************************************************************)
DigitChars == <<"0","1","2","3","4","5","6","7","8","9">>

IsDigit(c) == \E d \in 1..10 : DigitChars[d] = c

DigitVal(c) == (CHOOSE d \in 1..10 : DigitChars[d] = c) - 1

\* Value of the digit string s[a..b] read as a decimal integer (0 if empty).
RECURSIVE DigitsValue(_, _, _)
DigitsValue(s, a, b) ==
    IF b < a THEN 0 ELSE 10 * DigitsValue(s, a, b - 1) + DigitVal(s[b])

\* Last index of the run of digits starting at i (i - 1 if s[i] is no digit).
RunEnd(s, i) ==
    CHOOSE j \in (i-1)..Len(s) :
        /\ \A k \in i..j : IsDigit(s[k])
        /\ (j = Len(s) \/ ~IsDigit(s[j+1]))

\* float(tok) in thousandths, tok matching \d+\.?\d* (digits beyond the
\* third decimal are dropped; the phrases of the model have at most three).
FloatOfToken(tok) ==
    LET e == RunEnd(tok, 1)
        frac == IF e + 1 < Len(tok) THEN SubSeq(tok, e + 2, Len(tok)) ELSE << >>
        f3 == SubSeq(frac \o <<"0","0","0">>, 1, 3)
    IN  1000 * DigitsValue(tok, 1, e) + DigitsValue(f3, 1, 3)

\* Decimal digits of a natural number.
RECURSIVE NatToChars(_)
NatToChars(n) ==
    IF n < 10 THEN << DigitChars[n + 1] >>
    ELSE NatToChars(n \div 10) \o << DigitChars[(n % 10) + 1] >>

\* f"{x}" for x in thousandths: str(int) when isInt, repr(float) otherwise
\* ("150", "150.0", "14.175").
FormatNumber(m, isInt) ==
    LET ip == NatToChars(m \div 1000)
        r  == m % 1000
        fr == IF r = 0 THEN <<"0">>
              ELSE IF r % 100 = 0 THEN NatToChars(r \div 100)
              ELSE IF r % 10 = 0
                   THEN << DigitChars[(r \div 100) + 1],
                           DigitChars[((r \div 10) % 10) + 1] >>
              ELSE << DigitChars[(r \div 100) + 1],
                      DigitChars[((r \div 10) % 10) + 1],
                      DigitChars[(r % 10) + 1] >>
    IN  IF isInt THEN ip ELSE ip \o <<".">> \o fr

\* round(num / den) to the nearest integer, ties to the even integer
\* (num >= 0, den > 0).
RoundHalfEven(num, den) ==
    LET q == num \div den
        r == num % den
    IN  IF 2 * r < den THEN q
        ELSE IF 2 * r > den THEN q + 1
        ELSE IF q % 2 = 0 THEN q ELSE q + 1

(***************************************************************************)
(* Keywords scanned by the quantity parsers.                               *)
(***************************************************************************)
KwG == <<"g">>
KwKg == <<"k","g">>
KwCup == <<"c","u","p">>
KwTablespoon == <<"t","a","b","l","e","s","p","o","o","n">>
KwTbsp == <<"t","b","s","p">>
KwTeaspoon == <<"t","e","a","s","p","o","o","n">>
KwTsp == <<"t","s","p">>
KwOz == <<"o","z">>
KwLb == <<"l","b">>
KwPound == <<"p","o","u","n","d">>
KwKilogram == <<"k","i","l","o","g","r","a","m">>
KwKilo == <<"k","i","l","o">>
KwGram == <<"g","r","a","m">>
KwScoop == <<"s","c","o","o","p">>
KwPiece == <<"p","i","e","c","e">>
KwNotSpecified == <<"n","o","t"," ","s","p","e","c","i","f","i","e","d">>
KwHalf == <<"h","a","l","f">>
KwQuarter == <<"q","u","a","r","t","e","r">>
KwZeroPointFive == <<"0",".","5">>
KwZeroPointTwoFive == <<"0",".","2","5">>

(***************************************************************************)
(* re.findall(r'\d+\.?\d*', s): the first match.                           *)
(***************************************************************************)
HasNumber(s) == \E i \in 1..Len(s) : IsDigit(s[i])

\* numbers[0]: the leftmost match of \d+\.?\d* (greedy).
FirstNumberToken(s) ==
    LET a  == CHOOSE i \in 1..Len(s) :
                  IsDigit(s[i]) /\ \A k \in 1..(i-1) : ~IsDigit(s[k])
        e1 == RunEnd(s, a)
        e2 == IF e1 < Len(s) /\ s[e1 + 1] = "." THEN RunEnd(s, e1 + 2) ELSE e1
    IN  SubSeq(s, a, e2)

(***************************************************************************)
(* usda_client.parse_quantity_to_grams: phrase -> grams (thousandths).     *)
(***************************************************************************)
parse_quantity_to_grams(quantity_str) ==
    LET s == Strip(Lower(quantity_str))
    IN  IF ~HasNumber(s) THEN 100000
        ELSE LET value == FloatOfToken(FirstNumberToken(s))
             IN  IF Contains(s, KwG) /\ ~Contains(s, KwKg) THEN value
                 ELSE IF Contains(s, KwKg) THEN value * 1000
                 ELSE IF Contains(s, KwCup) THEN value * 150
                 ELSE IF Contains(s, KwTablespoon) \/ Contains(s, KwTbsp)
                      THEN value * 15
                 ELSE IF Contains(s, KwTeaspoon) \/ Contains(s, KwTsp)
                      THEN value * 5
                 ELSE IF Contains(s, KwOz) THEN (value * 2835) \div 100
                 ELSE IF Contains(s, KwLb) \/ Contains(s, KwPound)
                      THEN (value * 4536) \div 10
                 ELSE value

(***************************************************************************)
(* processing._parse_quantity: phrase -> magnitude (thousandths).          *)
(***************************************************************************)
parse_quantity(quantity_str) ==
    LET s == Strip(Lower(quantity_str))
    IN  IF Contains(s, KwHalf) \/ Contains(s, KwZeroPointFive) THEN 500
        ELSE IF Contains(s, KwQuarter) \/ Contains(s, KwZeroPointTwoFive)
             THEN 250
        ELSE IF HasNumber(s) THEN FloatOfToken(FirstNumberToken(s))
        ELSE 1000

(***************************************************************************)
(* processing._calculate_macros.  The scaling factor is the rational       *)
(* quantity_value * num / den, with quantity_value in thousandths.         *)
(***************************************************************************)
\* The unit multiplier chosen by the keyword chain, as <<num, den>>.
UnitMultiplier(quantity_str) ==
    LET s == Lower(quantity_str)
    IN  IF Contains(s, KwKilogram) \/ Contains(s, KwKilo) THEN <<10, 1>>
        ELSE IF Contains(s, KwGram) THEN <<1, 100>>
        ELSE IF Contains(s, KwCup) THEN <<3, 2>>
        ELSE IF Contains(s, KwTablespoon) THEN <<3, 20>>
        ELSE IF Contains(s, KwScoop) THEN <<3, 10>>
        ELSE IF Contains(s, KwPiece) \/ Contains(s, KwNotSpecified)
             THEN <<1, 1>>
        ELSE IF Contains(s, KwPound) THEN <<227, 50>>
        ELSE <<1, 1>>

\* scaling_factor as the fraction <<num, den>>.
scaling_factor(quantity_str) ==
    LET quantity_value == parse_quantity(quantity_str)
        k == UnitMultiplier(quantity_str)
    IN  << quantity_value * k[1], 1000 * k[2] >>

calculate_macros(nutrition_per_100g, quantity_str) ==
    LET num == scaling_factor(quantity_str)[1]
        den == scaling_factor(quantity_str)[2]
    IN  [calories  |-> RoundHalfEven(nutrition_per_100g.calories * num, den),
         protein_g |-> RoundHalfEven(nutrition_per_100g.protein_g * num, den),
         carbs_g   |-> RoundHalfEven(nutrition_per_100g.carbs_g * num, den),
         fat_g     |-> RoundHalfEven(nutrition_per_100g.fat_g * num, den)]

(***************************************************************************)
(* USDAClient._scale_nutrition: per-100g values scaled to quantity_g       *)
(* (thousandths of a gram).                                                *)
(***************************************************************************)
scale_nutrition(base_nutrition, quantity_g) ==
    [calories  |-> RoundHalfEven(base_nutrition.calories * quantity_g, 100000),
     protein_g |-> RoundHalfEven(base_nutrition.protein_g * quantity_g, 100000),
     fat_g     |-> RoundHalfEven(base_nutrition.fat_g * quantity_g, 100000),
     carbs_g   |-> RoundHalfEven(base_nutrition.carbs_g * quantity_g, 100000)]

(***************************************************************************)
(* A macros record carries, besides the four values and the source tag of  *)
(* the Python dict, a history field `origin` that records where its values *)
(* were computed: "remote" (extracted from a search result), "local"       *)
(* (scaled from a nutrition table entry) or "none" (literal zeros).  The   *)
(* code never reads it.                                                    *)
(***************************************************************************)
Macros(m, src, org) ==
    [calories |-> m.calories, protein_g |-> m.protein_g,
     carbs_g |-> m.carbs_g, fat_g |-> m.fat_g, source |-> src, origin |-> org]

ZeroValues == [calories |-> 0, protein_g |-> 0, carbs_g |-> 0, fat_g |-> 0]

\* What a call hands back: a dict, or an exception that propagates.
Returned(m) == [exc |-> FALSE, val |-> m]
Raised == [exc |-> TRUE, val |-> Macros(ZeroValues, "", "none")]

(***************************************************************************)
(* USDAClient.NUTRIENT_MAPPING and USDAClient._extract_nutrition.  A       *)
(* nutrient of a search result is [nutrientNumber, value, numeric]: value  *)
(* in tenths, numeric = FALSE for a value int()/float() cannot convert.    *)
(***************************************************************************)
NUTRIENT_MAPPING == [n \in {"208", "203", "204", "205"} |->
    CASE n = "208" -> "calories" [] n = "203" -> "protein_g"
      [] n = "204" -> "fat_g"    [] n = "205" -> "carbs_g"]

\* base_nutrition after the loop over the first k nutrients.
RECURSIVE BaseNutrition(_, _)
BaseNutrition(food_nutrients, k) ==
    IF k = 0 THEN ZeroValues
    ELSE LET prev == BaseNutrition(food_nutrients, k - 1)
             nutrient == food_nutrients[k]
         IN  IF nutrient.nutrientNumber \in DOMAIN NUTRIENT_MAPPING
             THEN LET field_name == NUTRIENT_MAPPING[nutrient.nutrientNumber]
                  IN  IF field_name = "calories"
                      THEN [prev EXCEPT !.calories = nutrient.value \div 10]
                      ELSE [prev EXCEPT ![field_name] = nutrient.value]
             ELSE prev

\* int(value)/float(value) raises on a mapped nutrient that is not a number.
ExtractRaises(food_data) ==
    \E k \in 1..Len(food_data.foodNutrients) :
        /\ food_data.foodNutrients[k].nutrientNumber \in DOMAIN NUTRIENT_MAPPING
        /\ ~food_data.foodNutrients[k].numeric

extract_nutrition(food_data, quantity_g) ==
    IF ExtractRaises(food_data) THEN Raised
    ELSE Returned(Macros(
             scale_nutrition(BaseNutrition(food_data.foodNutrients,
                                           Len(food_data.foodNutrients)),
                             quantity_g),
             "usda", "remote"))

\* Some code of NUTRIENT_MAPPING is not among the nutrients of the result:
\* the loop of _extract_nutrition leaves the default of that field.
LacksNutrientCodes(food_data) ==
    \E n \in DOMAIN NUTRIENT_MAPPING :
        \A k \in 1..Len(food_data.foodNutrients) :
            food_data.foodNutrients[k].nutrientNumber # n

(***************************************************************************)
(* USDAClient._filter_best_matches and USDAClient.search_food.             *)
(***************************************************************************)
processed_words ==
    { <<"b","r","e","a","d","e","d">>, <<"f","r","i","e","d">>,
      <<"c","o","o","k","e","d">>, <<"p","r","e","p","a","r","e","d">>,
      <<"s","e","a","s","o","n","e","d">>,
      <<"m","a","r","i","n","a","t","e","d">>,
      <<"s","t","u","f","f","e","d">> }

is_processed(food) ==
    \E word \in processed_words : Contains(Lower(food.description), word)

is_raw(food) == ~is_processed(food)

\* Variant that drops the processed results instead of moving them back.
filter_best_matches_RawOnly(foods) == SelectSeq(foods, is_raw)

filter_best_matches(foods) ==
    SelectSeq(foods, is_raw) \o SelectSeq(foods, is_processed)

\* response: [kind |-> "error"] for a network error, a timeout, an HTTP
\* error status or a body that is not JSON; [kind |-> "ok", foods |-> ...]
\* otherwise.
search_food(response) ==
    IF response.kind = "error" THEN << >>
    ELSE IF response.foods # << >> THEN filter_best_matches(response.foods)
    ELSE << >>

(***************************************************************************)
(* processing._load_nutrition_database and _lookup_local_nutrition.  The   *)
(* table is a sequence of [key, n] in the insertion order of the JSON      *)
(* object; n holds the per-100g values.                                    *)
(***************************************************************************)
FoodChickenBreast == <<"c","h","i","c","k","e","n"," ","b","r","e","a","s","t">>
FoodRice == <<"r","i","c","e">>

NutritionDbFile ==
    << [key |-> FoodChickenBreast,
        n |-> [calories |-> 165, protein_g |-> 310, carbs_g |-> 0, fat_g |-> 36]],
       [key |-> FoodRice,
        n |-> [calories |-> 130, protein_g |-> 27, carbs_g |-> 280, fat_g |-> 3]] >>

\* Variant without the JSONDecodeError handler of line 30.
load_nutrition_database_NoJsonHandler(file) ==
    IF file = "present" THEN [exc |-> FALSE, db |-> NutritionDbFile]
    ELSE IF file = "corrupt" THEN [exc |-> TRUE, db |-> << >>]
    ELSE [exc |-> FALSE, db |-> << >>]

\* file: "present", "missing" (FileNotFoundError, caught at line 27) or
\* "corrupt" (JSONDecodeError, caught at line 30).
load_nutrition_database(file) ==
    IF file = "present" THEN [exc |-> FALSE, db |-> NutritionDbFile]
    ELSE [exc |-> FALSE, db |-> << >>]

\* Variant that scans for the first key equal to, containing or contained
\* in the name, without the exact test of lines 152-153.
match_local_ScanOnly(nutrition_db, food_name) ==
    LET food_key == Strip(Lower(food_name))
        Partial(i) == \/ Contains(nutrition_db[i].key, food_key)
                      \/ Contains(food_key, nutrition_db[i].key)
    IN  IF \E i \in 1..Len(nutrition_db) : Partial(i)
        THEN CHOOSE i \in 1..Len(nutrition_db) :
                 Partial(i) /\ \A k \in 1..(i-1) : ~Partial(k)
        ELSE 0

\* The position of the entry _lookup_local_nutrition takes (lines 152-160):
\* the key equal to the name, else the first key of the iteration that
\* contains the name or is contained in it; 0 when there is none.
match_local(nutrition_db, food_name) ==
    LET food_key == Strip(Lower(food_name))
        Exact(i) == nutrition_db[i].key = food_key
        Partial(i) == \/ Contains(nutrition_db[i].key, food_key)
                      \/ Contains(food_key, nutrition_db[i].key)
    IN  IF \E i \in 1..Len(nutrition_db) : Exact(i)
        THEN CHOOSE i \in 1..Len(nutrition_db) : Exact(i)
        ELSE IF \E i \in 1..Len(nutrition_db) : Partial(i)
        THEN CHOOSE i \in 1..Len(nutrition_db) :
                 Partial(i) /\ \A k \in 1..(i-1) : ~Partial(k)
        ELSE 0

\* Variant whose no-match branch estimates the macros from the quantity
\* (150 kcal, 20 g protein, 10 g carbohydrate, 5 g fat per 100 g) instead
\* of returning zeros.
lookup_local_nutrition_MassDefault(food_name, quantity, file) ==
    LET loaded == load_nutrition_database(file)
        nutrition_db == loaded.db
        i == match_local(nutrition_db, food_name)
    IN  IF loaded.exc THEN Raised
        ELSE IF i # 0
        THEN Returned(Macros(calculate_macros(nutrition_db[i].n, quantity),
                             "local_database", "local"))
        ELSE Returned(Macros(
                 calculate_macros([calories |-> 150, protein_g |-> 200,
                                   carbs_g |-> 100, fat_g |-> 50], quantity),
                 "not_found", "none"))

lookup_local_nutrition(food_name, quantity, file) ==
    LET loaded == load_nutrition_database(file)
        nutrition_db == loaded.db
        i == match_local(nutrition_db, food_name)
    IN  IF loaded.exc THEN Raised
        ELSE IF i # 0
        THEN Returned(Macros(calculate_macros(nutrition_db[i].n, quantity),
                             "local_database", "local"))
        ELSE Returned(Macros(ZeroValues, "not_found", "none"))

(***************************************************************************)
(* meal_detection.detect_meal_time.  A timestamp is [hour, minute].        *)
(***************************************************************************)
\* Variant whose breakfast window is closed at 11 (hour <= 11).
detect_meal_time_BreakfastThrough11(timestamp) ==
    LET hour == timestamp.hour
    IN  IF 5 <= hour /\ hour <= 11 THEN "breakfast"
        ELSE IF 11 <= hour /\ hour < 15 THEN "lunch"
        ELSE IF 15 <= hour /\ hour < 18 THEN "snack"
        ELSE IF 18 <= hour /\ hour < 22 THEN "dinner"
        ELSE "snack"

detect_meal_time(timestamp) ==
    LET hour == timestamp.hour
    IN  IF 5 <= hour /\ hour < 11 THEN "breakfast"
        ELSE IF 11 <= hour /\ hour < 15 THEN "lunch"
        ELSE IF 15 <= hour /\ hour < 18 THEN "snack"
        ELSE IF 18 <= hour /\ hour < 22 THEN "dinner"
        ELSE "snack"

(***************************************************************************)
(* Inputs of the model.                                                    *)
(***************************************************************************)
FoodChicken == <<"C","h","i","c","k","e","n">>
FoodTofu == <<"t","o","f","u">>
Foods == { FoodChickenBreast, FoodChicken, FoodTofu }

Q150g == <<"1","5","0","g">>
Q150grams == <<"1","5","0"," ","g","r","a","m","s">>
Q200g == <<"2","0","0","g">>
QHalfCup == <<"h","a","l","f"," ","c","u","p">>
Q2Pieces == <<"2"," ","p","i","e","c","e","s">>
Quantities == { Q150g, Q150grams, Q200g, QHalfCup, Q2Pieces }

\* quantity_g arguments of a direct get_nutrition call: [g, is_int].
GramArguments ==
    { [g |-> 150000, is_int |-> TRUE], [g |-> 100000, is_int |-> TRUE],
      [g |-> 28500, is_int |-> FALSE] }

Nutrient(number, value) ==
    [nutrientNumber |-> number, value |-> value, numeric |-> TRUE]

RecChickenRaw ==
    [description |-> <<"C","h","i","c","k","e","n",","," ","r","a","w">>,
     foodNutrients |-> << Nutrient("208", 1657), Nutrient("203", 310),
                          Nutrient("204", 36), Nutrient("205", 0) >>]
RecChickenFried ==
    [description |-> <<"C","h","i","c","k","e","n",","," ","F","r","i","e","d">>,
     foodNutrients |-> << Nutrient("208", 2460), Nutrient("203", 250),
                          Nutrient("204", 150), Nutrient("205", 90),
                          Nutrient("301", 110) >>]
RecNoNutrients ==
    [description |-> <<"T","o","f","u">>,
     foodNutrients |-> << Nutrient("301", 3500) >>]
RecEnergyOnly ==
    [description |-> <<"T","o","f","u">>,
     foodNutrients |-> << Nutrient("208", 760) >>]
RecBadValue ==
    [description |-> <<"T","o","f","u">>,
     foodNutrients |-> << [nutrientNumber |-> "208", value |-> 0,
                           numeric |-> FALSE] >>]

\* What one HTTP request to the food database can produce.
RemoteResponses ==
    { [kind |-> "error", foods |-> << >>],
      [kind |-> "ok", foods |-> << >>],
      [kind |-> "ok", foods |-> << RecChickenRaw >>],
      [kind |-> "ok", foods |-> << RecChickenFried, RecChickenRaw >>],
      [kind |-> "ok", foods |-> << RecNoNutrients >>],
      [kind |-> "ok", foods |-> << RecEnergyOnly >>],
      [kind |-> "ok", foods |-> << RecBadValue >>] }

NutritionFileStates == { "present", "missing", "corrupt" }

(***************************************************************************)
(* storage.py: the daily JSON log files.  A file is [kind, entries,        *)
(* daily_macros]: kind "missing" (no file), "list" (the old format, a bare *)
(* list of entries) or "dict" (entries and the cached daily_macros).  An   *)
(* entry is [id, items], an item [food, quantity, has_macros, macros].     *)
(***************************************************************************)
MissingFile ==
    [kind |-> "missing", entries |-> << >>, daily_macros |-> ZeroValues]

\* totals after the loops of lines 15-23 over entries k.. and, within
\* entry k, over items j..
RECURSIVE AccumulateTotals(_, _, _, _)
AccumulateTotals(entries, k, j, totals) ==
    IF k > Len(entries) THEN totals
    ELSE IF j > Len(entries[k].items)
    THEN AccumulateTotals(entries, k + 1, 1, totals)
    ELSE LET item == entries[k].items[j]
         IN  AccumulateTotals(entries, k, j + 1,
                 IF item.has_macros
                 THEN [calories  |-> totals.calories + item.macros.calories,
                       protein_g |-> totals.protein_g + item.macros.protein_g,
                       carbs_g   |-> totals.carbs_g + item.macros.carbs_g,
                       fat_g     |-> totals.fat_g + item.macros.fat_g]
                 ELSE totals)

\* Variant that counts only the first item of each entry.
calculate_daily_totals_FirstItemOnly(entries) ==
    AccumulateTotals(
        [k \in 1..Len(entries) |->
            [entries[k] EXCEPT !.items = SubSeq(entries[k].items, 1, 1)]],
        1, 1, ZeroValues)

calculate_daily_totals(entries) ==
    LET totals == AccumulateTotals(entries, 1, 1, ZeroValues)
    IN  [calories  |-> RoundHalfEven(totals.calories, 1),
         protein_g |-> RoundHalfEven(totals.protein_g, 1),
         carbs_g   |-> RoundHalfEven(totals.carbs_g, 1),
         fat_g     |-> RoundHalfEven(totals.fat_g, 1)]

\* What json.dump writes at lines 85-92, 252-259 and 326-333.
DailyData(entries) ==
    [kind |-> "dict", entries |-> entries,
     daily_macros |-> calculate_daily_totals(entries)]

\* storage.get_daily_totals and get_daily_totals_by_date on a day's file.
get_daily_totals_by_date(file) ==
    IF file.kind = "missing" THEN ZeroValues
    ELSE IF file.kind = "dict" THEN file.daily_macros
    ELSE calculate_daily_totals(file.entries)

Q05Cup == <<"0",".","5"," ","c","u","p">>
Q300grams == <<"3","0","0"," ","g","r","a","m","s">>

\* The macros process_food_text attaches to an item: the resolution of its
\* food and quantity, here with the food database out of reach, tabulated
\* for the foods and quantities of the stored items.
ItemResolution ==
    [food \in { FoodChickenBreast, FoodRice, <<"t","o","f","u">> },
     quantity \in { Q150grams, Q300grams, Q05Cup, Q2Pieces } |->
        lookup_local_nutrition(food, quantity, "present").val]

\* An item as process_food_text hands it to store_food_data, with the
\* macros of the resolution, and one without a macros key.
LoggedItem(food, quantity) ==
    [food |-> food, quantity |-> quantity, has_macros |-> TRUE,
     macros |-> ItemResolution[food, quantity]]
BareItem(food, quantity) ==
    [food |-> food, quantity |-> quantity, has_macros |-> FALSE,
     macros |-> Macros(ZeroValues, "", "none")]

\* Item lists handed to store_food_data.
FoodItemLists ==
    { << LoggedItem(FoodChickenBreast, Q150grams) >>,
      << LoggedItem(FoodChickenBreast, Q150grams), LoggedItem(FoodRice, Q05Cup) >>,
      << BareItem(FoodRice, Q2Pieces) >> }

\* The days that have a log file; delete and update open today's.
LogDays == { "yesterday", "today" }

\* A log file an earlier version left behind: a bare list, entry without id.
LegacyFile ==
    [kind |-> "list",
     entries |-> << [id |-> 0, timestamp |-> [hour |-> 12, minute |-> 0],
                     items |-> << LoggedItem(FoodRice, Q2Pieces) >>] >>,
     daily_macros |-> ZeroValues]

\* Ids a caller may pass: the issued uuids and one that never was.
RequestIds == 1..(MaxStored + 1)
\* The time of day store_food_data is called with (test_storage.py:38).
StoreTimes == { [hour |-> 8, minute |-> 30] }
NewQuantities == { Q300grams, Q2Pieces }

\* What process_food_text can do with "<quantity> of <food>": raise, return
\* no items, an item without macros (the reply lacked a key), or the item
\* with the macros of the resolution.
ReprocessOutcomes(food, quantity) ==
    { [raises |-> TRUE, items |-> << >>],
      [raises |-> FALSE, items |-> << >>],
      [raises |-> FALSE, items |-> << BareItem(food, quantity) >>],
      [raises |-> FALSE, items |-> << LoggedItem(food, quantity) >>] }

(***************************************************************************)
(* shared/supabase_storage.py and api/: the food_entries table.  A row is  *)
(* [id, session_id, created_at, food_name, quantity, calories, protein,    *)
(* carbs, fat]; created_at is the day, counted in days.  An id a caller    *)
(* passes is [type, n]: a session uuid or a row number; a uuid never       *)
(* equals a row's BIGSERIAL id and a number never a session_id.            *)
(***************************************************************************)
\* datetime.now().date() of the run.
Today == 20

EqSessionId(row, entry_id) ==
    entry_id.type = "session" /\ row.session_id = entry_id.n
EqId(row, entry_id) == entry_id.type = "row" /\ row.id = entry_id.n

\* The rows store_food_data inserts for items k.. of food_items.
RECURSIVE NewRows(_, _, _, _, _)
NewRows(food_items, k, serial, session_id, created_at) ==
    IF k > Len(food_items) THEN << >>
    ELSE LET item == food_items[k]
         IN  << [id |-> serial + k, session_id |-> session_id,
                 created_at |-> created_at,
                 food_name |-> item.food, quantity |-> item.quantity,
                 calories |-> item.macros.calories,
                 protein |-> item.macros.protein_g,
                 carbs |-> item.macros.carbs_g,
                 fat |-> item.macros.fat_g] >>
             \o NewRows(food_items, k + 1, serial, session_id, created_at)

\* supabase_storage.get_daily_totals_by_date: the rows of the date, summed
\* from row k on.
RECURSIVE SumRows(_, _, _, _)
SumRows(table, k, date, totals) ==
    IF k > Len(table) THEN totals
    ELSE SumRows(table, k + 1, date,
             IF table[k].created_at = date
             THEN [calories  |-> totals.calories + table[k].calories,
                   protein_g |-> totals.protein_g + table[k].protein,
                   carbs_g   |-> totals.carbs_g + table[k].carbs,
                   fat_g     |-> totals.fat_g + table[k].fat]
             ELSE totals)

supabase_get_daily_totals_by_date(table, date) ==
    LET totals == SumRows(table, 1, date, ZeroValues)
    IN  [calories  |-> RoundHalfEven(totals.calories, 1),
         protein_g |-> RoundHalfEven(totals.protein_g, 1),
         carbs_g   |-> RoundHalfEven(totals.carbs_g, 1),
         fat_g     |-> RoundHalfEven(totals.fat_g, 1)]

\* api/entry-items.py handler._calculate_macros.  The table's per-100g
\* records carry protein_g, carbs_g and fat_g, so the .get("protein", 0),
\* .get("carbs", 0) and .get("fat", 0) of lines 130-132 yield 0; int()
\* truncates the calories.  In the no-match branch the values are exact in
\* tenths for the even whole quantities the model passes.
\* Lines 110-119 of the handler: the key equal to the name, else
\* partial_matches[0]; 0 when there is none.
entry_items_match(nutrition_db, food_name) ==
    LET food_key == Strip(Lower(food_name))
        Exact(i) == nutrition_db[i].key = food_key
        partial_matches == { i \in 1..Len(nutrition_db) :
                               \/ Contains(nutrition_db[i].key, food_key)
                               \/ Contains(food_key, nutrition_db[i].key) }
    IN  IF \E i \in 1..Len(nutrition_db) : Exact(i)
        THEN CHOOSE i \in 1..Len(nutrition_db) : Exact(i)
        ELSE IF partial_matches # {}
        THEN CHOOSE i \in partial_matches : \A k \in partial_matches : i <= k
        ELSE 0

entry_items_calculate_macros(food_name, quantity, nutrition_db) ==
    IF ~HasNumber(quantity) THEN ZeroValues
    ELSE LET quantity_num == FloatOfToken(FirstNumberToken(quantity))
             i == entry_items_match(nutrition_db, food_name)
         IN  IF i # 0
             THEN [calories  |-> (nutrition_db[i].n.calories * quantity_num)
                                     \div 100000,
                   protein_g |-> 0, carbs_g |-> 0, fat_g |-> 0]
             ELSE [calories  |-> (quantity_num * 15) \div 10000,
                   protein_g |-> (quantity_num * 2) \div 1000,
                   carbs_g   |-> quantity_num \div 1000,
                   fat_g     |-> (quantity_num * 5) \div 10000]

\* The loop of api/entry-items.py lines 44-66 from update k on: the table
\* after the updates and the number of updates that changed a row.
RECURSIVE ApplyItemUpdates(_, _, _, _)
ApplyItemUpdates(table, session_id, item_updates, k) ==
    IF k > Len(item_updates) THEN [table |-> table, updated |-> 0]
    ELSE LET food_name == item_updates[k].food
             new_quantity == item_updates[k].quantity
             new_macros == entry_items_calculate_macros(
                               food_name, new_quantity,
                               load_nutrition_database("present").db)
             Hit(row) == EqSessionId(row, session_id) /\ row.food_name = food_name
             after == [i \in 1..Len(table) |->
                          IF Hit(table[i])
                          THEN [table[i] EXCEPT !.quantity = new_quantity,
                                                !.calories = new_macros.calories,
                                                !.protein = new_macros.protein_g,
                                                !.carbs = new_macros.carbs_g,
                                                !.fat = new_macros.fat_g]
                          ELSE table[i]]
             rest == ApplyItemUpdates(after, session_id, item_updates, k + 1)
         IN  IF food_name = << >> \/ new_quantity = << >>
             THEN ApplyItemUpdates(table, session_id, item_updates, k + 1)
             ELSE [rest EXCEPT !.updated =
                      @ + (IF \E i \in 1..Len(table) : Hit(table[i]) THEN 1 ELSE 0)]

\* Item lists handed to supabase_storage.store_food_data, the days of
\* their timestamps and the requests of the edit handlers.
StoreItemLists ==
    { << LoggedItem(FoodChickenBreast, Q150grams) >>,
      << LoggedItem(FoodRice, Q05Cup), LoggedItem(<<"t","o","f","u">>, Q150grams) >> }
StoreDays == { Today - 8, Today - 7, Today }
EntryIds == [type : { "session", "row" }, n : 0..MaxRows]
EditQuantities == { Q300grams }
ItemUpdateLists ==
    { << >>,
      << [food |-> FoodChickenBreast, quantity |-> Q300grams] >>,
      << [food |-> <<"t","o","f","u">>, quantity |-> Q300grams],
         [food |-> FoodRice, quantity |-> << >>] >> }

(***************************************************************************)
(* api/calorie-history.py.  The user_goals table is a sequence of rows     *)
(* [id, calorie_goal, protein_goal, weight_goal_kg], goals in tenths       *)
(* except the calorie goal; a date is a day number.                        *)
(***************************************************************************)
\* goals_result.data[0]["calorie_goal"] if goals_result.data else 1800
GoalCalories(goals_table) ==
    IF goals_table # << >> THEN goals_table[1].calorie_goal ELSE 1800

\* Variant whose loop stops before the end date (current_date < end_dt).
get_calorie_history_by_period_EndExclusive(period, dates, table, goals_table) ==
    LET start_date == IF dates.given THEN dates.start_date
                      ELSE IF period = "today" THEN Today
                      ELSE IF period = "month" THEN Today - 30
                      ELSE Today - 7
        end_date == IF dates.given THEN dates.end_date ELSE Today
    IN  [i \in 1..(end_date - start_date) |->
            LET daily_totals ==
                    supabase_get_daily_totals_by_date(table, start_date + i - 1)
            IN  [date |-> start_date + i - 1,
                 calories |-> daily_totals.calories,
                 goal_calories |-> GoalCalories(goals_table),
                 protein_g |-> daily_totals.protein_g,
                 carbs_g |-> daily_totals.carbs_g,
                 fat_g |-> daily_totals.fat_g]]

\* get_calorie_history_by_period(period, start_date, end_date): one row
\* per day from the start date to the end date, both included.
get_calorie_history_by_period(period, dates, table, goals_table) ==
    LET start_date == IF dates.given THEN dates.start_date
                      ELSE IF period = "today" THEN Today
                      ELSE IF period = "month" THEN Today - 30
                      ELSE Today - 7
        end_date == IF dates.given THEN dates.end_date ELSE Today
    IN  [i \in 1..(end_date - start_date + 1) |->
            LET daily_totals ==
                    supabase_get_daily_totals_by_date(table, start_date + i - 1)
            IN  [date |-> start_date + i - 1,
                 calories |-> daily_totals.calories,
                 goal_calories |-> GoalCalories(goals_table),
                 protein_g |-> daily_totals.protein_g,
                 carbs_g |-> daily_totals.carbs_g,
                 fat_g |-> daily_totals.fat_g]]

\* The arguments of a history request and the goals found in user_goals.
Periods == { "today", "week", "month", "year" }
NoDates == [given |-> FALSE, start_date |-> 0, end_date |-> 0]
DateArguments ==
    { NoDates, [given |-> TRUE, start_date |-> Today - 1, end_date |-> Today] }
GoalsRow(calorie_goal, protein_goal, weight_goal_kg) ==
    [id |-> 1, calorie_goal |-> calorie_goal, protein_goal |-> protein_goal,
     weight_goal_kg |-> weight_goal_kg]

\* Variant without the max(0, ...) of line 192.
get_today_calorie_progress_NoFloor(table, goals_table) ==
    LET daily_totals == supabase_get_daily_totals_by_date(table, Today)
        goal_calories == GoalCalories(goals_table)
    IN  [current_calories |-> daily_totals.calories,
         goal_calories |-> goal_calories,
         remaining_calories |-> goal_calories - daily_totals.calories,
         progress_percentage |->
             IF goal_calories > 0
             THEN RoundHalfEven(daily_totals.calories * 1000, goal_calories)
             ELSE 0,
         is_over_goal |-> daily_totals.calories > goal_calories]

\* api/calorie-history.py get_today_calorie_progress; progress_percentage
\* in tenths of a percent.
get_today_calorie_progress(table, goals_table) ==
    LET daily_totals == supabase_get_daily_totals_by_date(table, Today)
        goal_calories == GoalCalories(goals_table)
        remaining == goal_calories - daily_totals.calories
    IN  [current_calories |-> daily_totals.calories,
         goal_calories |-> goal_calories,
         remaining_calories |-> IF remaining > 0 THEN remaining ELSE 0,
         progress_percentage |->
             IF goal_calories > 0
             THEN RoundHalfEven(daily_totals.calories * 1000, goal_calories)
             ELSE 0,
         is_over_goal |-> daily_totals.calories > goal_calories]

\* Calories eaten today and calorie goals found in user_goals.
CalorieSamples == { 0, 1, 300, 900, 1234, 1500, 1799, 1800, 1801, 2000, 3600, 5000 }
GoalSamples == { 0, 1, 800, 1800, 2000, 3000, 5000 }
MealOfCalories(calories) ==
    << [food |-> FoodRice, quantity |-> Q2Pieces, has_macros |-> TRUE,
        macros |-> [calories |-> calories, protein_g |-> 0, carbs_g |-> 0,
                    fat_g |-> 0]] >>

(***************************************************************************)
(* api/weight-history.py, api/weight-entries.py and api/user-goals.py.  A  *)
(* row of weight_entries is [id, weight_kg, created_at]; weights are in    *)
(* tenths of a kilogram, percentages in tenths of a percent; a goal weight *)
(* of 0 stands for None (both are false in the tests of the code).         *)
(***************************************************************************)
\* round(num / den) for a numerator of either sign (den > 0).
RoundSigned(num, den) ==
    IF num >= 0 THEN RoundHalfEven(num, den) ELSE 0 - RoundHalfEven(0 - num, den)

\* The rows of the window in ascending created_at order (the days of the
\* rows are distinct).
WeightsInWindow(table, start_date, end_date) ==
    LET in_window == { i \in 1..Len(table) :
                         /\ start_date <= table[i].created_at
                         /\ table[i].created_at <= end_date }
        Rank(i) == Cardinality({ j \in in_window :
                                   table[j].created_at <= table[i].created_at })
    IN  [r \in 1..Cardinality(in_window) |->
            table[CHOOSE i \in in_window : Rank(i) = r]]

\* get_weight_summary_endpoint: the summary of the past month.
get_weight_summary(table, goals_table) ==
    LET history == WeightsInWindow(table, Today - 30, Today)
        goal_weight == IF goals_table # << >> THEN goals_table[1].weight_goal_kg
                       ELSE 0
        current_weight == history[Len(history)].weight_kg
        initial_weight == history[1].weight_kg
        week_entries == WeightsInWindow(table, Today - 7, Today)
        progress_to_goal ==
            IF goal_weight # 0 /\ current_weight # 0 /\ goal_weight # current_weight
            THEN IF goal_weight < current_weight
                 THEN IF initial_weight - goal_weight > 0
                      THEN RoundSigned((initial_weight - current_weight) * 1000,
                                       initial_weight - goal_weight)
                      ELSE 0
                 ELSE IF goal_weight - initial_weight > 0
                      THEN RoundSigned((current_weight - initial_weight) * 1000,
                                       goal_weight - initial_weight)
                      ELSE 0
            ELSE 0
    IN  IF history = << >>
        THEN [current_weight |-> 0, goal_weight |-> 0, weight_change_month |-> 0,
              weight_change_week |-> 0, progress_to_goal |-> 0,
              entries_count |-> 0]
        ELSE [current_weight |-> current_weight, goal_weight |-> goal_weight,
              weight_change_month |->
                  IF Len(history) > 1 THEN current_weight - initial_weight ELSE 0,
              weight_change_week |->
                  IF Len(history) > 1 /\ Len(week_entries) > 1
                  THEN current_weight - week_entries[1].weight_kg ELSE 0,
              progress_to_goal |-> progress_to_goal,
              entries_count |-> Len(history)]

WeightRow(id, weight_kg, created_at) ==
    [id |-> id, weight_kg |-> weight_kg, created_at |-> created_at]

\* Weight tables: the first weight of the month, the latest one, and an
\* older entry outside the window, inserted in or out of date order.
InitialWeights == { 600, 700, 725 }
CurrentWeights == { 600, 650, 660, 690, 700, 712, 725, 730 }
WeightTables ==
    { << >> }
    \cup { << WeightRow(1, w, Today) >> : w \in CurrentWeights }
    \cup { << WeightRow(1, i, Today - 7), WeightRow(2, w, Today) >> :
               i \in InitialWeights, w \in CurrentWeights }
    \cup { << WeightRow(1, w, Today), WeightRow(2, i, Today - 30) >> :
               i \in InitialWeights, w \in CurrentWeights }
    \cup { << WeightRow(1, 800, Today - 31), WeightRow(2, i, Today - 14),
              WeightRow(3, w, Today - 1) >> :
               i \in InitialWeights, w \in CurrentWeights }
WeightGoals == { 0, 650, 700 }

(***************************************************************************)
(* POST /api/user-goals and POST /api/weight-entries.  A request body is a *)
(* function from the keys it carries to their values; calorie goals of a   *)
(* request are in tenths (the body may carry a fraction), stored calorie   *)
(* goals are whole, protein goals and weights are in tenths.               *)
(***************************************************************************)
EmptyBody == << >>
Has(data, key) == key \in DOMAIN data

\* supabase_storage-style update_user_goals of api/user-goals.py: one row,
\* updated if it exists, inserted otherwise; keys the body lacks are written
\* with the defaults.  user_goals.calorie_goal is an INTEGER column, which
\* refuses a fraction: the exception is caught and False returned.
update_user_goals(goals_table, goals_data) ==
    LET calorie_goal == IF Has(goals_data, "calorie_goal")
                        THEN goals_data["calorie_goal"] ELSE 18000
        protein_goal == IF Has(goals_data, "protein_goal")
                        THEN goals_data["protein_goal"] ELSE 1600
        weight_goal_kg == IF Has(goals_data, "weight_goal_kg")
                          THEN goals_data["weight_goal_kg"] ELSE 700
        goals_update == GoalsRow(calorie_goal \div 10, protein_goal, weight_goal_kg)
    IN  IF calorie_goal % 10 # 0
        THEN [ok |-> FALSE, table |-> goals_table]
        ELSE [ok |-> TRUE,
              table |-> IF goals_table # << >>
                        THEN [goals_table EXCEPT ![1] =
                                  [goals_update EXCEPT !.id = goals_table[1].id]]
                        ELSE << goals_update >>]

\* The handler without the test of the weight goal.
update_user_goals_endpoint_NoWeightTest(goals_table, data) ==
    IF data = EmptyBody
    THEN [status |-> 400, table |-> goals_table]
    ELSE IF /\ Has(data, "calorie_goal")
            /\ \/ data["calorie_goal"] \div 10 < 800
               \/ data["calorie_goal"] \div 10 > 5000
    THEN [status |-> 400, table |-> goals_table]
    ELSE IF /\ Has(data, "protein_goal")
            /\ (data["protein_goal"] < 200 \/ data["protein_goal"] > 5000)
    THEN [status |-> 400, table |-> goals_table]
    ELSE LET updated == update_user_goals(goals_table, data)
         IN  [status |-> IF updated.ok THEN 200 ELSE 500, table |-> updated.table]

\* update_user_goals_endpoint: every test precedes the write; int() drops
\* the fraction of the calorie goal before the test.
update_user_goals_endpoint(goals_table, data) ==
    IF data = EmptyBody
    THEN [status |-> 400, table |-> goals_table]
    ELSE IF /\ Has(data, "calorie_goal")
            /\ \/ data["calorie_goal"] \div 10 < 800
               \/ data["calorie_goal"] \div 10 > 5000
    THEN [status |-> 400, table |-> goals_table]
    ELSE IF /\ Has(data, "protein_goal")
            /\ (data["protein_goal"] < 200 \/ data["protein_goal"] > 5000)
    THEN [status |-> 400, table |-> goals_table]
    ELSE IF /\ Has(data, "weight_goal_kg")
            /\ (data["weight_goal_kg"] < 200 \/ data["weight_goal_kg"] > 3000)
    THEN [status |-> 400, table |-> goals_table]
    ELSE LET updated == update_user_goals(goals_table, data)
         IN  [status |-> IF updated.ok THEN 200 ELSE 500, table |-> updated.table]

\* add_weight_entry_endpoint with store_weight_entry.
add_weight_entry_endpoint(table, data) ==
    IF data = EmptyBody \/ ~Has(data, "weight_kg")
    THEN [status |-> 400, table |-> table]
    ELSE IF data["weight_kg"] < 200 \/ data["weight_kg"] > 3000
    THEN [status |-> 400, table |-> table]
    ELSE [status |-> 200,
          table |-> Append(table, WeightRow(Len(table) + 1, data["weight_kg"], Today))]

\* Request bodies around the limits of each range.
GoalBodies ==
    { EmptyBody }
    \cup { [calorie_goal |-> c] : c \in { 0, 7990, 7999, 8000, 50000, 50005, 50010 } }
    \cup { [weight_goal_kg |-> w] : w \in { 0, 199, 200, 3000, 3001 } }
    \cup { [protein_goal |-> p] : p \in { 199, 1500 } }
    \cup { [calorie_goal |-> c, protein_goal |-> 1500, weight_goal_kg |-> w] :
               c \in { 20000, 60000 }, w \in { 680, 3500 } }
WeightBodies ==
    { EmptyBody, [notes |-> 0] }
    \cup { [weight_kg |-> w] : w \in { 0, 199, 200, 712, 3000, 3001 } }

(***************************************************************************)
(* State.                                                                  *)
(***************************************************************************)
VARIABLES
    phase,          \* "idle", "running", "done"
    entry,          \* the function the caller invoked
    request,        \* its arguments
    nutritionFile,  \* state of data/nutrition_db.json
    stack,          \* call stack of the resolution, innermost frame last
    ret,            \* value or exception being handed to the top frame
    result,         \* what the caller got
    queries,        \* HTTP requests sent to the food database so far
    reentries,      \* calls of _lookup_nutrition made by _fallback_to_local
    trace,          \* sources consulted so far, in order
    timestamp,      \* argument of detect_meal_time
    meal,           \* its result
    phrase,         \* argument of the quantity parsers
    grams,          \* parse_quantity_to_grams(phrase)
    scaling,        \* numerator of _calculate_macros' scaling factor
    magnitude,      \* _parse_quantity of the phrase (thousandths)
    foodData,       \* argument of _extract_nutrition
    scaleGrams,     \* its quantity_g
    extracted,      \* its result
    logs,           \* storage.py: the log file of each day
    issued,         \* uuids store_food_data has issued
    logOp,          \* the last storage.py call: name, id, result, files before
    recount,        \* results of _calculate_daily_totals since the last write
    foodEntries,    \* supabase: the rows of food_entries, in insertion order
    serial,         \* the last BIGSERIAL id food_entries issued
    storeOp,        \* the last call on food_entries: name, arguments, result
    history,        \* the last calorie history response since the last write
    progress,       \* the last response of /api/calorie-history/today
    userGoals,      \* supabase: the rows of user_goals
    weightEntries,  \* supabase: the rows of weight_entries, in insertion order
    weightSummary,  \* the last response of /api/weight-history/summary
    goalOp,         \* the last POST to user-goals or weight-entries: body,
                    \* status, and both tables as they were before it
    nutritionDb,    \* a nutrition table: [key, n] in insertion order
    foodName,       \* the food name looked up in it
    localMatch,     \* the entries the two lookups took for it
    searchFoods,    \* "foods" of a search response
    filteredFoods,  \* what _filter_best_matches made of it
    goalRequests,   \* update_user_goals calls in progress: position, body
                    \* and the row the existence check returned
    storeRequests,  \* store_food_data calls in progress: position, the
                    \* entry, and the entries read from the day's file
    cleanRun        \* a run of clean_duplicate_calories.main: position,
                    \* its locals, and the table as it was before the run

chainVars == << phase, entry, request, nutritionFile, stack, ret, result, queries,
                reentries, trace >>
mealVars == << timestamp, meal >>
normVars == << phrase, grams, scaling, magnitude >>
scaleVars == << foodData, scaleGrams, extracted >>
logVars == << logs, issued, logOp, recount >>
storeVars == << foodEntries, serial, storeOp, history, progress >>
goalVars == << userGoals, weightEntries, weightSummary, goalOp >>
localVars == << nutritionDb, foodName, localMatch >>
filterVars == << searchFoods, filteredFoods >>
raceVars == << goalRequests, storeRequests >>
moreVars == << localVars, filterVars, raceVars, cleanRun >>
dataVars == << logVars, storeVars, goalVars, moreVars >>
vars == << chainVars, mealVars, normVars, scaleVars, dataVars >>

NoMacros == Macros(ZeroValues, "", "none")
NoReturn == [pending |-> FALSE, exc |-> FALSE, val |-> NoMacros]
Pending(r) == [pending |-> TRUE, exc |-> r.exc, val |-> r.val]

Frame(fn, food_name, quantity, quantity_g, is_int) ==
    [fn |-> fn, pc |-> "start", food_name |-> food_name,
     quantity |-> quantity, quantity_g |-> quantity_g, is_int |-> is_int]

Top == stack[Len(stack)]
Pop == SubSeq(stack, 1, Len(stack) - 1)
Waiting == [stack EXCEPT ![Len(stack)].pc = "wait"]
\* A call needs a frame; without one the interpreter raises RecursionError.
CanCall == Len(stack) < StackLimit

\* A source consulted by the chain; lacking: the best match of a search
\* lacked one of the four nutrient codes.
Consulted(src, hit) == [source |-> src, hit |-> hit, lacking |-> FALSE]

ChainIdle ==
    /\ phase = "idle" /\ entry = "none" /\ stack = << >> /\ ret = NoReturn
    /\ request = Frame("none", << >>, << >>, 0, FALSE)
    /\ result = NoReturn /\ queries = 0 /\ reentries = 0 /\ trace = << >>
MealIdle == timestamp = [hour |-> 0, minute |-> 0] /\ meal = "none"
NormIdle == phrase = << >> /\ grams = -1 /\ scaling = -1 /\ magnitude = -1
ScaleIdle ==
    /\ foodData = [description |-> << >>, foodNutrients |-> << >>]
    /\ scaleGrams = 0 /\ extracted = NoMacros

LogCall(op, id, r) == [op |-> op, id |-> id, ret |-> r, before |-> logs]
LogIdle ==
    /\ logs = [d \in LogDays |-> MissingFile] /\ issued = 0 /\ recount = << >>
    /\ logOp = [op |-> "none", id |-> 0, ret |-> "none", before |-> logs]

StoreCall(op, id, quantity, r) ==
    [op |-> op, id |-> id, quantity |-> quantity, ret |-> r, before |-> foodEntries]
NoHistory == [period |-> "none", dates |-> NoDates, data |-> << >>]
NoProgress ==
    [current_calories |-> -1, goal_calories |-> -1, remaining_calories |-> -1,
     progress_percentage |-> -1, is_over_goal |-> FALSE]
StoreIdle ==
    /\ foodEntries = << >> /\ serial = 0 /\ history = NoHistory
    /\ progress = NoProgress
    /\ storeOp = StoreCall("none", [type |-> "row", n |-> 0], << >>, "none")
NoSummary ==
    [current_weight |-> 0, goal_weight |-> 0, weight_change_month |-> 0,
     weight_change_week |-> 0, progress_to_goal |-> 0, entries_count |-> -1]
GoalCall(op, data, status) ==
    [op |-> op, data |-> data, status |-> status,
     goals_before |-> userGoals, weights_before |-> weightEntries]
NoGoalCall ==
    [op |-> "none", data |-> EmptyBody, status |-> 0,
     goals_before |-> << >>, weights_before |-> << >>]
GoalIdle ==
    /\ userGoals = << >> /\ weightEntries = << >>
    /\ weightSummary = NoSummary /\ goalOp = NoGoalCall
NoMatch == [local |-> -1, edit |-> -1]
LocalIdle == nutritionDb = << >> /\ foodName = << >> /\ localMatch = NoMatch
NotFiltered == << [description |-> << >>, foodNutrients |-> << >>] >>
FilterIdle == searchFoods = << >> /\ filteredFoods = NotFiltered
Requests == { "r1", "r2" }
NotStarted == [pc |-> "start", goals |-> EmptyBody, existing |-> << >>]
NotCalled == [pc |-> "start", entry |-> << >>, entries |-> << >>]
RaceIdle ==
    /\ goalRequests = [r \in Requests |-> NotStarted]
    /\ storeRequests = [r \in Requests |-> NotCalled]
NotRun ==
    [pc |-> "start", k |-> 0, before |-> << >>, dates_to_consolidate |-> << >>,
     entries_to_remove |-> << >>, created |-> {}, deleted |-> {}]
CleanIdle == cleanRun = NotRun
MoreIdle == LocalIdle /\ FilterIdle /\ RaceIdle /\ CleanIdle
DataIdle == LogIdle /\ StoreIdle /\ GoalIdle /\ MoreIdle

Init ==
    /\ ChainIdle /\ MealIdle /\ NormIdle /\ ScaleIdle /\ DataIdle
    /\ nutritionFile \in NutritionFileStates

(***************************************************************************)
(* The resolution chain.  One action per call or return of                 *)
(* processing._lookup_nutrition, USDAClient.get_nutrition and              *)
(* USDAClient._fallback_to_local.                                          *)
(***************************************************************************)
\* A caller invokes _lookup_nutrition(food_name, quantity).
StartLookup ==
    /\ phase = "idle"
    /\ \E food_name \in Foods, quantity \in Quantities :
           /\ stack' = << Frame("lookup_nutrition", food_name, quantity, 0, FALSE) >>
           /\ request' = Frame("lookup_nutrition", food_name, quantity, 0, FALSE)
    /\ phase' = "running" /\ entry' = "lookup_nutrition"
    /\ UNCHANGED << nutritionFile, ret, result, queries, reentries, trace >>
    /\ UNCHANGED << mealVars, normVars, scaleVars, dataVars >>

\* A caller invokes USDAClient().get_nutrition(food_name, quantity_g).
StartGet ==
    /\ phase = "idle"
    /\ \E food_name \in Foods, arg \in GramArguments :
           /\ stack' = << Frame("get_nutrition", food_name, << >>, arg.g, arg.is_int) >>
           /\ request' = Frame("get_nutrition", food_name, << >>, arg.g, arg.is_int)
    /\ phase' = "running" /\ entry' = "get_nutrition"
    /\ UNCHANGED << nutritionFile, ret, result, queries, reentries, trace >>
    /\ UNCHANGED << mealVars, normVars, scaleVars, dataVars >>

\* _lookup_nutrition, lines 123-131: parse the quantity and call
\* get_nutrition.  Without a free frame the call raises RecursionError, the
\* handler at line 140 catches it, and the call of _lookup_local_nutrition
\* at line 145 raises it again, out of the function.
LookupNutritionCall ==
    /\ phase = "running" /\ stack # << >> /\ ~ret.pending
    /\ Top.fn = "lookup_nutrition" /\ Top.pc = "start"
    /\ IF CanCall
       THEN /\ stack' = Append(Waiting,
                   Frame("get_nutrition", Top.food_name, << >>,
                         parse_quantity_to_grams(Top.quantity), FALSE))
            /\ ret' = ret
       ELSE /\ stack' = Pop
            /\ ret' = Pending(Raised)
    /\ UNCHANGED << phase, entry, request, nutritionFile, result, queries, reentries, trace >>
    /\ UNCHANGED << mealVars, normVars, scaleVars, dataVars >>

\* get_nutrition, lines 105-122: one search request, then either the
\* extracted best match or a call of _fallback_to_local (on an empty result
\* at line 111, on an exception at line 122).
GetNutritionSearch ==
    /\ phase = "running" /\ stack # << >> /\ ~ret.pending
    /\ Top.fn = "get_nutrition" /\ Top.pc = "start"
    /\ IF ~CanCall
       THEN \* search_food and then _fallback_to_local raise RecursionError
            /\ stack' = Pop
            /\ ret' = Pending(Raised)
            /\ UNCHANGED << queries, trace >>
       ELSE \E response \in RemoteResponses :
              LET search_results == search_food(response)
                  nutrition == IF search_results = << >> THEN Raised
                               ELSE extract_nutrition(search_results[1],
                                                      Top.quantity_g)
              IN  /\ queries' = queries + 1
                  /\ IF search_results = << >> \/ nutrition.exc
                     THEN /\ stack' = Append(Waiting,
                                 Frame("fallback_to_local", Top.food_name,
                                       << >>, Top.quantity_g, Top.is_int))
                          /\ ret' = ret
                          /\ trace' = Append(trace, Consulted("REMOTE", FALSE))
                     ELSE /\ stack' = Pop
                          /\ ret' = Pending(nutrition)
                          /\ trace' = Append(trace,
                                 [Consulted("REMOTE", TRUE) EXCEPT !.lacking =
                                      LacksNutrientCodes(search_results[1])])
    /\ UNCHANGED << phase, entry, request, nutritionFile, result, reentries >>
    /\ UNCHANGED << mealVars, normVars, scaleVars, dataVars >>

\* _fallback_to_local, lines 195-203: format the grams as "<g>g" and call
\* local_lookup, which line 197 binds to processing._lookup_nutrition.  A RecursionError on the call is caught at line 208 and
\* the zero record of lines 212-218 is returned.
FallbackToLocalCall ==
    /\ phase = "running" /\ stack # << >> /\ ~ret.pending
    /\ Top.fn = "fallback_to_local" /\ Top.pc = "start"
    /\ IF CanCall
       THEN LET quantity_str == FormatNumber(Top.quantity_g, Top.is_int) \o <<"g">>
            IN  /\ stack' = Append(Waiting,
                       Frame("lookup_nutrition", Top.food_name, quantity_str,
                             0, FALSE))
                /\ ret' = ret
                /\ reentries' = reentries + 1
       ELSE /\ stack' = Pop
            /\ ret' = Pending(Returned(Macros(ZeroValues, "default", "none")))
            /\ reentries' = reentries
    /\ UNCHANGED << phase, entry, request, nutritionFile, result, queries, trace >>
    /\ UNCHANGED << mealVars, normVars, scaleVars, dataVars >>

\* _lookup_nutrition, lines 133-145: hand back a record tagged "usda",
\* otherwise (any other record, or an exception) consult the local table.
LookupNutritionReturn ==
    /\ phase = "running" /\ stack # << >> /\ ret.pending
    /\ Top.fn = "lookup_nutrition" /\ Top.pc = "wait"
    /\ IF ~ret.exc /\ ret.val.source = "usda"
       THEN /\ ret' = ret
            /\ trace' = trace
       ELSE LET local == lookup_local_nutrition(Top.food_name, Top.quantity,
                                                nutritionFile)
            IN  /\ ret' = Pending(local)
                /\ trace' = Append(trace,
                               Consulted("LOCAL", local.val.origin = "local"))
    /\ stack' = Pop
    /\ UNCHANGED << phase, entry, request, nutritionFile, result, queries, reentries >>
    /\ UNCHANGED << mealVars, normVars, scaleVars, dataVars >>

\* _fallback_to_local, lines 203-218: stamp the record local_lookup handed
\* back with "local_fallback"; on an exception return the zero record.
FallbackToLocalReturn ==
    /\ phase = "running" /\ stack # << >> /\ ret.pending
    /\ Top.fn = "fallback_to_local" /\ Top.pc = "wait"
    /\ ret' = IF ret.exc
              THEN Pending(Returned(Macros(ZeroValues, "default", "none")))
              ELSE Pending(Returned([ret.val EXCEPT !.source = "local_fallback"]))
    /\ stack' = Pop
    /\ UNCHANGED << phase, entry, request, nutritionFile, result, queries, reentries, trace >>
    /\ UNCHANGED << mealVars, normVars, scaleVars, dataVars >>

\* get_nutrition, lines 111 and 122: return what _fallback_to_local returned.
GetNutritionReturn ==
    /\ phase = "running" /\ stack # << >> /\ ret.pending
    /\ Top.fn = "get_nutrition" /\ Top.pc = "wait"
    /\ stack' = Pop
    /\ UNCHANGED << phase, entry, request, nutritionFile, ret, result, queries, reentries, trace >>
    /\ UNCHANGED << mealVars, normVars, scaleVars, dataVars >>

\* The outermost call returns to the caller.
Finish ==
    /\ phase = "running" /\ stack = << >> /\ ret.pending
    /\ result' = [ret EXCEPT !.pending = FALSE]
    /\ ret' = NoReturn
    /\ phase' = "done"
    /\ UNCHANGED << entry, request, nutritionFile, stack, queries, reentries, trace >>
    /\ UNCHANGED << mealVars, normVars, scaleVars, dataVars >>

Next ==
    \/ StartLookup \/ StartGet
    \/ LookupNutritionCall \/ GetNutritionSearch \/ FallbackToLocalCall
    \/ LookupNutritionReturn \/ FallbackToLocalReturn \/ GetNutritionReturn
    \/ Finish

Spec == Init /\ [][Next]_vars

(***************************************************************************)
(* detect_meal_time applied to one timestamp.                              *)
(***************************************************************************)
Hours == 0..23
Minutes == { 0, 30, 59 }

InitMeal ==
    /\ ChainIdle /\ NormIdle /\ ScaleIdle /\ DataIdle
    /\ nutritionFile = "present"
    /\ timestamp \in [hour : Hours, minute : Minutes]
    /\ meal = "none"

DetectMealTime ==
    /\ meal = "none"
    /\ meal' = detect_meal_time(timestamp)
    /\ UNCHANGED << timestamp, chainVars, normVars, scaleVars, dataVars >>

NextMeal == DetectMealTime

SpecMeal == InitMeal /\ [][NextMeal]_vars

(***************************************************************************)
(* The quantity parsers applied to one phrase: a number token followed by  *)
(* a unit word, or a phrase without a number.                              *)
(***************************************************************************)
NumberTokens ==
    { <<"0">>, <<"1">>, <<"2">>, <<"1","5","0">>, <<"0",".","5">>,
      <<"1","0",".","5">>, <<"0",".","0">> }

UnitWords ==
    { << >>, <<"g">>, <<" ","g","r","a","m","s">>, <<" ","c","u","p","s">>,
      <<"k","g">>, <<" ","k","i","l","o","g","r","a","m","s">>,
      <<" ","o","z">>, <<" ","l","b">>, <<" ","t","b","s","p">>,
      <<" ","t","s","p">>, <<" ","s","c","o","o","p">>,
      <<" ","p","i","e","c","e">>, <<" ","e","g","g","s">> }

WordPhrases ==
    { QHalfCup, <<"a"," ","h","a","n","d","f","u","l">>,
      <<"q","u","a","r","t","e","r"," ","p","o","u","n","d">>,
      KwNotSpecified }

Phrases == { n \o u : n \in NumberTokens, u \in UnitWords } \cup WordPhrases

InitNorm ==
    /\ ChainIdle /\ MealIdle /\ ScaleIdle /\ DataIdle
    /\ nutritionFile = "present"
    /\ phrase \in Phrases
    /\ grams = -1 /\ scaling = -1 /\ magnitude = -1

\* The gram value of the USDA path and the scaling factor (numerator) of
\* the local path for the same phrase, as _lookup_nutrition computes them.
Normalize ==
    /\ grams = -1
    /\ grams' = parse_quantity_to_grams(phrase)
    /\ scaling' = scaling_factor(phrase)[1]
    /\ magnitude' = parse_quantity(phrase)
    /\ UNCHANGED << phrase, chainVars, mealVars, scaleVars, dataVars >>

NextNorm == Normalize

SpecNorm == InitNorm /\ [][NextNorm]_vars

(***************************************************************************)
(* _extract_nutrition applied to one search result and one gram quantity.  *)
(***************************************************************************)
RecApple ==
    [description |-> <<"A","p","p","l","e">>,
     foodNutrients |-> << Nutrient("208", 525), Nutrient("203", 3),
                          Nutrient("204", 2), Nutrient("205", 138) >>]
RecOil ==
    [description |-> <<"O","i","l">>,
     foodNutrients |-> << Nutrient("208", 8840), Nutrient("204", 1000) >>]
RecRice ==
    [description |-> <<"R","i","c","e">>,
     foodNutrients |-> << Nutrient("205", 282), Nutrient("208", 1300),
                          Nutrient("203", 27), Nutrient("204", 3) >>]

ScaleFoods ==
    { RecChickenRaw, RecChickenFried, RecNoNutrients, RecApple, RecOil, RecRice }

ScaleGrams ==
    { 250, 1000, 10000, 28000, 28350, 50000, 75000, 100000, 150000, 200000,
      14175 }

InitScale ==
    /\ ChainIdle /\ MealIdle /\ NormIdle /\ DataIdle
    /\ nutritionFile = "present"
    /\ foodData \in ScaleFoods
    /\ scaleGrams \in ScaleGrams
    /\ extracted = NoMacros

ExtractNutrition ==
    /\ extracted = NoMacros
    /\ extracted' = extract_nutrition(foodData, scaleGrams).val
    /\ UNCHANGED << foodData, scaleGrams, chainVars, mealVars, normVars, dataVars >>

NextScale == ExtractNutrition

SpecScale == InitScale /\ [][NextScale]_vars

(***************************************************************************)
(* storage.py: store_food_data, delete_entry, update_entry_quantity and    *)
(* _calculate_daily_totals on the daily log files.                         *)
(***************************************************************************)
InitLog ==
    /\ ChainIdle /\ MealIdle /\ NormIdle /\ ScaleIdle /\ MoreIdle /\ StoreIdle /\ GoalIdle
    /\ nutritionFile = "present"
    /\ \E file \in { MissingFile, LegacyFile } :
           logs = [d \in LogDays |-> IF d = "today" THEN file ELSE MissingFile]
    /\ issued = 0 /\ recount = << >>
    /\ logOp = [op |-> "none", id |-> 0, ret |-> "none", before |-> logs]

\* store_food_data(food_items, timestamp): ValueError on an empty list,
\* else the entry is appended to the day's file and the totals rewritten.
StoreFoodData ==
    \E food_items \in FoodItemLists \cup { << >> }, day \in LogDays,
       time \in StoreTimes :
        /\ IF food_items = << >>
           THEN /\ logOp' = LogCall("store_food_data", 0, "raise")
                /\ UNCHANGED << logs, issued, recount >>
           ELSE /\ issued < MaxStored
                /\ LET new_entry == [id |-> issued + 1, timestamp |-> time,
                                      items |-> food_items]
                       entries == Append(logs[day].entries, new_entry)
                   IN  logs' = [logs EXCEPT ![day] = DailyData(entries)]
                /\ issued' = issued + 1
                /\ recount' = << >>
                /\ logOp' = LogCall("store_food_data", issued + 1, "True")
        /\ UNCHANGED << chainVars, mealVars, normVars, scaleVars, moreVars, storeVars, goalVars >>

\* Variant that rewrites the file without the check of lines 247-248.
DeleteEntry_NoFoundCheck ==
    \E entry_id \in RequestIds :
        LET data == logs["today"]
            entries == SelectSeq(data.entries, LAMBDA e : e.id # entry_id)
        IN  /\ IF data.kind # "dict"
               THEN /\ logOp' = LogCall("delete_entry", entry_id, "False")
                    /\ UNCHANGED << logs, recount >>
               ELSE /\ logs' = [logs EXCEPT !["today"] = DailyData(entries)]
                    /\ recount' = << >>
                    /\ logOp' = LogCall("delete_entry", entry_id, "True")
            /\ UNCHANGED << issued, chainVars, mealVars, normVars, scaleVars, moreVars, storeVars, goalVars >>

\* delete_entry(entry_id) on today's file.
DeleteEntry ==
    \E entry_id \in RequestIds :
        LET data == logs["today"]
            entries == SelectSeq(data.entries, LAMBDA e : e.id # entry_id)
        IN  /\ IF data.kind # "dict" \/ Len(entries) = Len(data.entries)
               THEN /\ logOp' = LogCall("delete_entry", entry_id, "False")
                    /\ UNCHANGED << logs, recount >>
               ELSE /\ logs' = [logs EXCEPT !["today"] = DailyData(entries)]
                    /\ recount' = << >>
                    /\ logOp' = LogCall("delete_entry", entry_id, "True")
            /\ UNCHANGED << issued, chainVars, mealVars, normVars, scaleVars, moreVars, storeVars, goalVars >>

\* update_entry_quantity(entry_id, new_quantity) on today's file: the first
\* item of the entry gets the quantity and, if process_food_text returns an
\* item, that item's macros; the totals are recomputed and written.  A
\* returned item without macros makes _calculate_daily_totals raise
\* (None.get) before anything is written.
UpdateEntryQuantity ==
    \E entry_id \in RequestIds, new_quantity \in NewQuantities :
        LET data == logs["today"]
            found == { k \in 1..Len(data.entries) :
                         /\ data.entries[k].id = entry_id
                         /\ Len(data.entries[k].items) > 0 }
        IN  /\ IF data.kind # "dict" \/ found = {}
               THEN /\ logOp' = LogCall("update_entry_quantity", entry_id, "False")
                    /\ UNCHANGED << logs, recount >>
               ELSE LET k == CHOOSE k \in found : \A m \in found : k <= m
                        food_name == data.entries[k].items[1].food
                    IN  \E processed_data \in ReprocessOutcomes(food_name, new_quantity) :
                          LET reprocessed == /\ ~processed_data.raises
                                             /\ processed_data.items # << >>
                              item == IF reprocessed
                                      THEN [data.entries[k].items[1] EXCEPT
                                              !.quantity = new_quantity,
                                              !.has_macros = TRUE,
                                              !.macros = processed_data.items[1].macros]
                                      ELSE [data.entries[k].items[1] EXCEPT
                                              !.quantity = new_quantity]
                              entries == [data.entries EXCEPT ![k].items[1] = item]
                          IN  IF reprocessed /\ ~processed_data.items[1].has_macros
                              THEN /\ logOp' = LogCall("update_entry_quantity",
                                                       entry_id, "raise")
                                   /\ UNCHANGED << logs, recount >>
                              ELSE /\ logs' = [logs EXCEPT !["today"] = DailyData(entries)]
                                   /\ recount' = << >>
                                   /\ logOp' = LogCall("update_entry_quantity",
                                                       entry_id, "True")
            /\ UNCHANGED << issued, chainVars, mealVars, normVars, scaleVars, moreVars, storeVars, goalVars >>

\* Variant that keeps a running total between calls.
CalculateDailyTotals_Running ==
    /\ Len(recount) < MaxRecounts
    /\ recount' = Append(recount,
           AccumulateTotals(logs["today"].entries, 1, 1,
               IF recount = << >> THEN ZeroValues ELSE recount[Len(recount)]))
    /\ UNCHANGED << logs, issued, logOp, chainVars, mealVars, normVars, scaleVars, moreVars, storeVars, goalVars >>

\* One more call of _calculate_daily_totals on today's entries.
CalculateDailyTotals ==
    /\ Len(recount) < MaxRecounts
    /\ recount' = Append(recount, calculate_daily_totals(logs["today"].entries))
    /\ UNCHANGED << logs, issued, logOp, chainVars, mealVars, normVars, scaleVars, moreVars, storeVars, goalVars >>

NextLog ==
    \/ StoreFoodData
    \/ DeleteEntry
    \/ UpdateEntryQuantity
    \/ CalculateDailyTotals

SpecLog == InitLog /\ [][NextLog]_vars

(***************************************************************************)
(* The food_entries table: supabase_storage.store_food_data, delete_entry  *)
(* and update_entry_quantity, and the PUT handlers of api/entry.py and     *)
(* api/entry-items.py.                                                     *)
(***************************************************************************)
InitStore ==
    /\ ChainIdle /\ MealIdle /\ NormIdle /\ ScaleIdle /\ MoreIdle /\ LogIdle /\ StoreIdle
    /\ GoalIdle
    /\ nutritionFile = "present"

\* store_food_data(food_items, timestamp): one row per item, all with the
\* session uuid of the call.
SupabaseStoreFoodData ==
    \E food_items \in StoreItemLists, created_at \in StoreDays :
        /\ serial + Len(food_items) <= MaxRows
        /\ foodEntries' = foodEntries
               \o NewRows(food_items, 1, serial, serial + 1, created_at)
        /\ serial' = serial + Len(food_items)
        /\ storeOp' = StoreCall("store_food_data",
                                [type |-> "session", n |-> serial + 1], << >>, "True")
        /\ UNCHANGED << history, progress, chainVars, mealVars, normVars, scaleVars, moreVars, logVars, goalVars >>

\* Variant that deletes one row of the session only.
SupabaseDeleteEntry_OneRow ==
    \E entry_id \in EntryIds :
        LET by_session == { i \in 1..Len(foodEntries) :
                              EqSessionId(foodEntries[i], entry_id) }
            by_id == { i \in 1..Len(foodEntries) : EqId(foodEntries[i], entry_id) }
            matched == IF by_session # {} THEN by_session ELSE by_id
            deleted == IF matched = {} THEN {}
                       ELSE { CHOOSE i \in matched : \A k \in matched : i <= k }
            Keep(row) == \A i \in deleted : foodEntries[i] # row
        IN  /\ foodEntries' = SelectSeq(foodEntries, Keep)
            /\ storeOp' = StoreCall("delete_entry", entry_id, << >>,
                                    IF deleted # {} THEN "True" ELSE "False")
            /\ UNCHANGED << history, progress, serial, chainVars, mealVars, normVars, scaleVars, moreVars, logVars, goalVars >>

\* delete_entry(entry_id): the rows of the session, else the row of the id.
SupabaseDeleteEntry ==
    \E entry_id \in EntryIds :
        LET by_session == { i \in 1..Len(foodEntries) :
                              EqSessionId(foodEntries[i], entry_id) }
            by_id == { i \in 1..Len(foodEntries) : EqId(foodEntries[i], entry_id) }
            deleted == IF by_session # {} THEN by_session ELSE by_id
            Keep(row) == \A i \in deleted : foodEntries[i] # row
        IN  /\ foodEntries' = SelectSeq(foodEntries, Keep)
            /\ storeOp' = StoreCall("delete_entry", entry_id, << >>,
                                    IF deleted # {} THEN "True" ELSE "False")
            /\ UNCHANGED << history, progress, serial, chainVars, mealVars, normVars, scaleVars, moreVars, logVars, goalVars >>

\* The update both update_entry_quantity and api/entry.py send: the
\* quantity column of the row with the id, nothing else.
UpdateQuantityColumn(entry_id, new_quantity) ==
    [i \in 1..Len(foodEntries) |->
        IF EqId(foodEntries[i], entry_id)
        THEN [foodEntries[i] EXCEPT !.quantity = new_quantity]
        ELSE foodEntries[i]]

\* update_entry_quantity(entry_id, new_quantity).
SupabaseUpdateEntryQuantity ==
    \E entry_id \in EntryIds, new_quantity \in EditQuantities :
        /\ foodEntries' = UpdateQuantityColumn(entry_id, new_quantity)
        /\ storeOp' = StoreCall("update_entry_quantity", entry_id, new_quantity,
                          IF \E i \in 1..Len(foodEntries) : EqId(foodEntries[i], entry_id)
                          THEN "True" ELSE "False")
        /\ UNCHANGED << history, progress, serial, chainVars, mealVars, normVars, scaleVars, moreVars, logVars, goalVars >>

\* api/entry.py handler.do_DELETE: the same two deletes; 404 when neither
\* removed a row, else 200.
EntryDelete ==
    \E entry_id \in EntryIds :
        LET by_session == { i \in 1..Len(foodEntries) :
                              EqSessionId(foodEntries[i], entry_id) }
            by_id == { i \in 1..Len(foodEntries) : EqId(foodEntries[i], entry_id) }
            deleted == IF by_session # {} THEN by_session ELSE by_id
            Keep(row) == \A i \in deleted : foodEntries[i] # row
        IN  /\ foodEntries' = SelectSeq(foodEntries, Keep)
            /\ storeOp' = StoreCall("entry.do_DELETE", entry_id, << >>,
                                    IF deleted # {} THEN "200" ELSE "404")
            /\ UNCHANGED << history, progress, serial, chainVars, mealVars, normVars, scaleVars, moreVars, logVars, goalVars >>

\* api/entry.py handler.do_PUT: 400 without a quantity, 404 when no row has
\* the id, else 200.
EntryPut ==
    \E entry_id \in EntryIds, new_quantity \in EditQuantities \cup { << >> } :
        /\ IF new_quantity = << >>
           THEN /\ storeOp' = StoreCall("entry.do_PUT", entry_id, new_quantity, "400")
                /\ UNCHANGED foodEntries
           ELSE /\ foodEntries' = UpdateQuantityColumn(entry_id, new_quantity)
                /\ storeOp' = StoreCall("entry.do_PUT", entry_id, new_quantity,
                       IF \E i \in 1..Len(foodEntries) : EqId(foodEntries[i], entry_id)
                       THEN "200" ELSE "404")
        /\ UNCHANGED << history, progress, serial, chainVars, mealVars, normVars, scaleVars, moreVars, logVars, goalVars >>

\* api/entry-items.py handler.do_PUT: 400 without items, else every row of
\* the session with the food name of an update gets its quantity and the
\* macros of _calculate_macros; 404 when no update changed a row.
EntryItemsPut ==
    \E session_id \in EntryIds, item_updates \in ItemUpdateLists :
        /\ IF item_updates = << >>
           THEN /\ storeOp' = StoreCall("entry-items.do_PUT", session_id, << >>, "400")
                /\ UNCHANGED foodEntries
           ELSE LET done == ApplyItemUpdates(foodEntries, session_id, item_updates, 1)
                IN  /\ foodEntries' = done.table
                    /\ storeOp' = StoreCall("entry-items.do_PUT", session_id,
                                            item_updates[1].quantity,
                                            IF done.updated > 0 THEN "200" ELSE "404")
        /\ UNCHANGED << history, progress, serial, chainVars, mealVars, normVars, scaleVars, moreVars, logVars, goalVars >>

NextStore ==
    \/ SupabaseStoreFoodData
    \/ SupabaseDeleteEntry
    \/ SupabaseUpdateEntryQuantity
    \/ EntryPut
    \/ EntryItemsPut
    \/ EntryDelete

SpecStore == InitStore /\ [][NextStore]_vars

(***************************************************************************)
(* GET /api/calorie-history on a table that store_food_data filled with up *)
(* to two sessions.                                                        *)
(***************************************************************************)
SessionRows(serial_before) ==
    { NewRows(food_items, 1, serial_before, serial_before + 1, created_at) :
          food_items \in StoreItemLists, created_at \in StoreDays }
StoredTables ==
    { << >> } \cup SessionRows(0)
        \cup { first \o second : first \in SessionRows(0), second \in SessionRows(2) }

InitHistory ==
    /\ ChainIdle /\ MealIdle /\ NormIdle /\ ScaleIdle /\ MoreIdle /\ LogIdle
    /\ nutritionFile = "present"
    /\ foodEntries \in StoredTables /\ serial = Len(foodEntries)
    /\ history = NoHistory /\ progress = NoProgress
    /\ storeOp = StoreCall("none", [type |-> "row", n |-> 0], << >>, "none")
    /\ userGoals \in { << >>, << GoalsRow(2000, 1500, 680) >> }
    /\ weightEntries = << >> /\ weightSummary = NoSummary /\ goalOp = NoGoalCall

\* get_calorie_history_by_period on the table.
GetCalorieHistory ==
    \E period \in Periods, dates \in DateArguments :
        /\ history' = [period |-> period, dates |-> dates,
                       data |-> get_calorie_history_by_period(
                                    period, dates, foodEntries, userGoals)]
        /\ UNCHANGED << foodEntries, serial, storeOp, progress >>
        /\ UNCHANGED << chainVars, mealVars, normVars, scaleVars, moreVars, logVars, goalVars >>

NextHistory == GetCalorieHistory

SpecHistory == InitHistory /\ [][NextHistory]_vars

(***************************************************************************)
(* GET /api/calorie-history/today for one day's calories and one goal.     *)
(***************************************************************************)
InitProgress ==
    /\ ChainIdle /\ MealIdle /\ NormIdle /\ ScaleIdle /\ MoreIdle /\ LogIdle
    /\ nutritionFile = "present"
    /\ foodEntries \in { << >> } \cup
           { NewRows(MealOfCalories(c), 1, 0, 1, Today) : c \in CalorieSamples }
    /\ serial = Len(foodEntries)
    /\ history = NoHistory /\ progress = NoProgress
    /\ storeOp = StoreCall("none", [type |-> "row", n |-> 0], << >>, "none")
    /\ userGoals \in { << >> } \cup { << GoalsRow(g, 1500, 680) >> : g \in GoalSamples }
    /\ weightEntries = << >> /\ weightSummary = NoSummary /\ goalOp = NoGoalCall

GetTodayCalorieProgress ==
    /\ progress = NoProgress
    /\ progress' = get_today_calorie_progress(foodEntries, userGoals)
    /\ UNCHANGED << foodEntries, serial, storeOp, history >>
    /\ UNCHANGED << chainVars, mealVars, normVars, scaleVars, moreVars, logVars, goalVars >>

NextProgress == GetTodayCalorieProgress

SpecProgress == InitProgress /\ [][NextProgress]_vars

(***************************************************************************)
(* GET /api/weight-history/summary for one weight table and one goal.      *)
(***************************************************************************)
InitWeight ==
    /\ ChainIdle /\ MealIdle /\ NormIdle /\ ScaleIdle /\ MoreIdle /\ LogIdle /\ StoreIdle
    /\ nutritionFile = "present"
    /\ weightEntries \in WeightTables
    /\ userGoals \in { << >> } \cup { << GoalsRow(2000, 1500, g) >> : g \in WeightGoals }
    /\ weightSummary = NoSummary /\ goalOp = NoGoalCall

GetWeightSummary ==
    /\ weightSummary = NoSummary
    /\ weightSummary' = get_weight_summary(weightEntries, userGoals)
    /\ UNCHANGED << userGoals, weightEntries, goalOp >>
    /\ UNCHANGED << chainVars, mealVars, normVars, scaleVars, moreVars, logVars, storeVars >>

NextWeight == GetWeightSummary

SpecWeight == InitWeight /\ [][NextWeight]_vars

(***************************************************************************)
(* The goals and the weight entries under POST requests.                   *)
(***************************************************************************)
InitGoals ==
    /\ ChainIdle /\ MealIdle /\ NormIdle /\ ScaleIdle /\ MoreIdle /\ LogIdle /\ StoreIdle
    /\ nutritionFile = "present"
    /\ GoalIdle

UpdateUserGoalsEndpoint ==
    \E data \in GoalBodies :
        LET response == update_user_goals_endpoint(userGoals, data)
        IN  /\ userGoals' = response.table
            /\ goalOp' = GoalCall("update_user_goals", data, response.status)
            /\ UNCHANGED << weightEntries, weightSummary >>
            /\ UNCHANGED << chainVars, mealVars, normVars, scaleVars, moreVars, logVars, storeVars >>

AddWeightEntryEndpoint ==
    \E data \in WeightBodies :
        LET response == add_weight_entry_endpoint(weightEntries, data)
        IN  /\ Len(response.table) <= MaxWeights
            /\ weightEntries' = response.table
            /\ goalOp' = GoalCall("add_weight_entry", data, response.status)
            /\ UNCHANGED << userGoals, weightSummary >>
            /\ UNCHANGED << chainVars, mealVars, normVars, scaleVars, moreVars, logVars, storeVars >>

NextGoals == UpdateUserGoalsEndpoint \/ AddWeightEntryEndpoint

SpecGoals == InitGoals /\ [][NextGoals]_vars

(***************************************************************************)
(* The LOCAL lookup over nutrition tables of other contents and orders.    *)
(***************************************************************************)
FoodBrownRice == <<"b","r","o","w","n"," ","r","i","c","e">>
\* The keys a table is made of, each with its own calories per 100 g.
TableKeys == { FoodChickenBreast, FoodChicken, FoodRice, FoodBrownRice }
TableEntry(key) ==
    [key |-> key,
     n |-> [calories |-> 100 + Len(key), protein_g |-> 10 * Len(key),
            carbs_g |-> 0, fat_g |-> Len(key)]]
\* Tables of up to MaxTable distinct keys in every insertion order.
NutritionTables ==
    LET orders == UNION { { t \in [1..n -> TableKeys] :
                               \A i, j \in 1..n : i < j => t[i] # t[j] } :
                          n \in 0..MaxTable }
    IN  { [i \in 1..Len(t) |-> TableEntry(t[i])] : t \in orders }
FoodNames ==
    { FoodChicken, FoodRice, FoodBrownRice, FoodTofu,
      <<" ","R","i","c","e"," ">>, <<"i","c","e">>,
      <<"f","r","i","e","d"," ","c","h","i","c","k","e","n"," ","b","r","e","a","s","t">> }

InitLocal ==
    /\ ChainIdle /\ MealIdle /\ NormIdle /\ ScaleIdle
    /\ LogIdle /\ StoreIdle /\ GoalIdle /\ FilterIdle /\ RaceIdle /\ CleanIdle
    /\ nutritionFile = "present"
    /\ nutritionDb \in NutritionTables
    /\ foodName \in FoodNames
    /\ localMatch = NoMatch

\* _lookup_local_nutrition and the handler of entry-items.py choose an
\* entry for the name.
LookupLocal ==
    /\ localMatch = NoMatch
    /\ localMatch' = [local |-> match_local(nutritionDb, foodName),
                      edit |-> entry_items_match(nutritionDb, foodName)]
    /\ UNCHANGED << nutritionDb, foodName, filterVars, raceVars, cleanRun >>
    /\ UNCHANGED << chainVars, mealVars, normVars, scaleVars, logVars, storeVars, goalVars >>

NextLocal == LookupLocal

SpecLocal == InitLocal /\ [][NextLocal]_vars

(***************************************************************************)
(* USDAClient._filter_best_matches over result lists.                      *)
(***************************************************************************)
RecChickenBreaded ==
    [description |-> <<"c","h","i","c","k","e","n",","," ","b","r","e","a","d","e","d">>,
     foodNutrients |-> << Nutrient("208", 2900) >>]
SearchResults == { RecChickenRaw, RecChickenFried, RecChickenBreaded, RecNoNutrients }
\* Result lists of up to MaxFoods foods, repetitions included.
FoodLists == UNION { [1..n -> SearchResults] : n \in 0..MaxFoods }

InitFilter ==
    /\ ChainIdle /\ MealIdle /\ NormIdle /\ ScaleIdle
    /\ LogIdle /\ StoreIdle /\ GoalIdle /\ LocalIdle /\ RaceIdle /\ CleanIdle
    /\ nutritionFile = "present"
    /\ searchFoods \in FoodLists
    /\ filteredFoods = NotFiltered

FilterBestMatches ==
    /\ filteredFoods = NotFiltered
    /\ filteredFoods' = filter_best_matches(searchFoods)
    /\ UNCHANGED << searchFoods, localVars, raceVars, cleanRun >>
    /\ UNCHANGED << chainVars, mealVars, normVars, scaleVars, logVars, storeVars, goalVars >>

NextFilter == FilterBestMatches

SpecFilter == InitFilter /\ [][NextFilter]_vars

(***************************************************************************)
(* Two update_user_goals calls (shared/supabase_storage.py) against one    *)
(* user_goals table.  A call is two requests to the table: the select of   *)
(* line 449 and the update or insert of lines 458-464; the other call may  *)
(* run between them.                                                       *)
(***************************************************************************)
StoredGoals == << GoalsRow(1800, 1600, 700) >>
RaceBodies == { [calorie_goal |-> 2000], [weight_goal_kg |-> 680],
                [calorie_goal |-> 2200, protein_goal |-> 1500,
                 weight_goal_kg |-> 650] }
\* goals_data of lines 451-456 (calorie goals are whole here).
GoalsData(goals) ==
    [calorie_goal |-> IF Has(goals, "calorie_goal") THEN goals["calorie_goal"]
                      ELSE 1800,
     protein_goal |-> IF Has(goals, "protein_goal") THEN goals["protein_goal"]
                      ELSE 1600,
     weight_goal_kg |-> IF Has(goals, "weight_goal_kg")
                        THEN goals["weight_goal_kg"] ELSE 700]

InitGoalRace ==
    /\ ChainIdle /\ MealIdle /\ NormIdle /\ ScaleIdle
    /\ LogIdle /\ StoreIdle /\ LocalIdle /\ FilterIdle /\ CleanIdle
    /\ nutritionFile = "present"
    /\ userGoals \in { << >>, StoredGoals }
    /\ weightEntries = << >> /\ weightSummary = NoSummary /\ goalOp = NoGoalCall
    /\ goalRequests = [r \in Requests |-> NotStarted]
    /\ storeRequests = [r \in Requests |-> NotCalled]

\* Line 449: select("id").limit(1).
SelectExisting(r) ==
    \E goals \in RaceBodies :
        /\ goalRequests[r].pc = "start"
        /\ goalRequests' = [goalRequests EXCEPT ![r] =
               [pc |-> "selected", goals |-> goals,
                existing |-> SubSeq(userGoals, 1, IF userGoals = << >> THEN 0 ELSE 1)]]
        /\ UNCHANGED << userGoals, weightEntries, weightSummary, goalOp, localVars, filterVars, storeRequests, cleanRun >>
        /\ UNCHANGED << chainVars, mealVars, normVars, scaleVars, logVars, storeVars >>

\* Lines 458-464: update the row of the id the select returned, or insert.
UpdateOrInsert(r) ==
    LET d == GoalsData(goalRequests[r].goals)
        existing == goalRequests[r].existing
    IN  /\ goalRequests[r].pc = "selected"
        /\ goalRequests' = [goalRequests EXCEPT ![r].pc = "done"]
        /\ userGoals' =
               IF existing # << >>
               THEN [i \in 1..Len(userGoals) |->
                        IF userGoals[i].id = existing[1].id
                        THEN [id |-> userGoals[i].id, calorie_goal |-> d.calorie_goal,
                              protein_goal |-> d.protein_goal,
                              weight_goal_kg |-> d.weight_goal_kg]
                        ELSE userGoals[i]]
               ELSE Append(userGoals,
                        [id |-> Len(userGoals) + 1, calorie_goal |-> d.calorie_goal,
                         protein_goal |-> d.protein_goal,
                         weight_goal_kg |-> d.weight_goal_kg])
        /\ UNCHANGED << weightEntries, weightSummary, goalOp, localVars, filterVars, storeRequests, cleanRun >>
        /\ UNCHANGED << chainVars, mealVars, normVars, scaleVars, logVars, storeVars >>

NextGoalRace ==
    \E r \in Requests : SelectExisting(r) \/ UpdateOrInsert(r)

SpecGoalRace == InitGoalRace /\ [][NextGoalRace]_vars

(***************************************************************************)
(* Two store_food_data calls (storage.py) for the same day, as the         *)
(* threaded server of app.py runs them.  A call reads the day's file       *)
(* (lines 68-78), opens it for writing, which empties it (line 91), and    *)
(* dumps its entries with the totals (line 92); nothing orders the steps   *)
(* of one call against those of the other.  A file opened for writing and  *)
(* not yet dumped holds no JSON: json.load of it raises.                   *)
(***************************************************************************)
TruncatedFile ==
    [kind |-> "truncated", entries |-> << >>, daily_macros |-> ZeroValues]

InitStoreRace ==
    /\ ChainIdle /\ MealIdle /\ NormIdle /\ ScaleIdle
    /\ StoreIdle /\ GoalIdle /\ LocalIdle /\ FilterIdle /\ CleanIdle
    /\ nutritionFile = "present"
    /\ \E file \in { MissingFile, LegacyFile,
                     DailyData(<< [id |-> 3, timestamp |-> [hour |-> 8, minute |-> 30],
                                   items |-> << LoggedItem(FoodRice, Q05Cup) >>] >>) } :
           logs = [d \in LogDays |-> IF d = "today" THEN file ELSE MissingFile]
    /\ issued = 0 /\ recount = << >>
    /\ logOp = [op |-> "none", id |-> 0, ret |-> "none", before |-> logs]
    /\ goalRequests = [r \in Requests |-> NotStarted]
    /\ storeRequests = [r \in Requests |-> NotCalled]

\* Lines 46-78: the entry gets its uuid and the file of the day is read.
ReadEntries(r) ==
    \E food_items \in FoodItemLists, time \in StoreTimes :
        /\ storeRequests[r].pc = "start"
        /\ issued' = issued + 1
        /\ storeRequests' = [storeRequests EXCEPT ![r] =
               IF logs["today"].kind = "truncated"
               THEN [pc |-> "raised", entry |-> << >>, entries |-> << >>]
               ELSE [pc |-> "read",
                     entry |-> << [id |-> issued + 1, timestamp |-> time,
                                   items |-> food_items] >>,
                     entries |-> logs["today"].entries]]
        /\ UNCHANGED << logs, logOp, recount, goalRequests >>
        /\ UNCHANGED << chainVars, mealVars, normVars, scaleVars, storeVars, goalVars, localVars, filterVars, cleanRun >>

\* Lines 81-91: the entry is appended to the entries read, the totals are
\* computed and the file is opened for writing.
OpenForWriting(r) ==
    /\ storeRequests[r].pc = "read"
    /\ storeRequests' = [storeRequests EXCEPT ![r].pc = "opened",
                             ![r].entries = storeRequests[r].entries
                                                \o storeRequests[r].entry]
    /\ logs' = [logs EXCEPT !["today"] = TruncatedFile]
    /\ UNCHANGED << issued, logOp, recount, goalRequests >>
    /\ UNCHANGED << chainVars, mealVars, normVars, scaleVars, storeVars, goalVars, localVars, filterVars, cleanRun >>

\* Lines 92-95: json.dump of the entries and their totals; True.
DumpDailyData(r) ==
    /\ storeRequests[r].pc = "opened"
    /\ storeRequests' = [storeRequests EXCEPT ![r].pc = "True"]
    /\ logs' = [logs EXCEPT !["today"] = DailyData(storeRequests[r].entries)]
    /\ UNCHANGED << issued, logOp, recount, goalRequests >>
    /\ UNCHANGED << chainVars, mealVars, normVars, scaleVars, storeVars, goalVars, localVars, filterVars, cleanRun >>

NextStoreRace ==
    \E r \in Requests : ReadEntries(r) \/ OpenForWriting(r) \/ DumpDailyData(r)

SpecStoreRace == InitStoreRace /\ [][NextStoreRace]_vars

(***************************************************************************)
(* clean_duplicate_calories.py: main analyses the last 7 days of            *)
(* food_entries, inserts one summary row for every date with more than one *)
(* row, and then, when at least one summary was created, deletes every row *)
(* of entries_to_remove.  An insert or a delete that raises or returns no  *)
(* data is caught and counted as not done (lines 143-151, 173-181).        *)
(***************************************************************************)
DaysBack == 7

\* The rows of the date, in the order of the table.
RowsOfDate(table, date) == SelectSeq(table, LAMBDA row : row.created_at = date)

RECURSIVE SumColumn(_, _)
SumColumn(rows, column) ==
    IF rows = << >> THEN 0
    ELSE Head(rows)[column] + SumColumn(Tail(rows), column)

\* analyze_duplicate_calories, lines 24-104: the dates from day on, in
\* ascending order of created_at, that hold more than one row.
RECURSIVE dates_to_consolidate(_, _)
dates_to_consolidate(table, day) ==
    IF day > Today THEN << >>
    ELSE (IF Len(RowsOfDate(table, day)) > 1 THEN << day >> ELSE << >>)
         \o dates_to_consolidate(table, day + 1)

\* Lines 80, 96-97: every row of every date to consolidate.
RECURSIVE entries_to_remove(_, _, _)
entries_to_remove(table, dates, k) ==
    IF k > Len(dates) THEN << >>
    ELSE RowsOfDate(table, dates[k]) \o entries_to_remove(table, dates, k + 1)

\* create_daily_calorie_summaries, lines 125-141: the summary row of a date.
summary_entry(table, date, id) ==
    LET rows == RowsOfDate(table, date)
    IN  [id |-> id, session_id |-> id, created_at |-> date,
         food_name |-> <<"D","a","i","l","y"," ","T","o","t","a","l">>,
         quantity |-> << DigitChars[Len(rows) + 1] >>
                          \o <<" ","m","e","a","l","s","/","s","n","a","c","k","s">>,
         calories |-> SumColumn(rows, "calories"),
         protein |-> SumColumn(rows, "protein"),
         carbs |-> SumColumn(rows, "carbs"),
         fat |-> SumColumn(rows, "fat")]

InitClean ==
    /\ ChainIdle /\ MealIdle /\ NormIdle /\ ScaleIdle
    /\ LogIdle /\ GoalIdle /\ LocalIdle /\ FilterIdle /\ RaceIdle
    /\ nutritionFile = "present"
    /\ foodEntries \in StoredTables
    /\ serial = IF foodEntries = << >> THEN 0 ELSE foodEntries[Len(foodEntries)].id
    /\ history = NoHistory /\ progress = NoProgress
    /\ storeOp = StoreCall("none", [type |-> "row", n |-> 0], << >>, "none")
    /\ cleanRun = NotRun

\* main, lines 199-205: the analysis; nothing to consolidate ends the run.
AnalyzeDuplicateCalories ==
    /\ cleanRun.pc = "start"
    /\ LET dates == dates_to_consolidate(foodEntries, Today - DaysBack)
       IN  cleanRun' = [cleanRun EXCEPT
               !.pc = IF dates = << >> THEN "done" ELSE "create",
               !.k = 1,
               !.before = foodEntries,
               !.dates_to_consolidate = dates,
               !.entries_to_remove = entries_to_remove(foodEntries, dates, 1)]
    /\ UNCHANGED << storeVars, localVars, filterVars, raceVars >>
    /\ UNCHANGED << chainVars, mealVars, normVars, scaleVars, logVars, goalVars >>

\* create_daily_calorie_summaries, lines 119-154, one date of its loop: the
\* insert succeeds or fails; after the last date, main (lines 208-224)
\* goes on to the removal when created_count > 0 and ends otherwise.
CreateDailyCalorieSummary ==
    /\ cleanRun.pc = "create"
    /\ \E inserted \in BOOLEAN :
           LET date == cleanRun.dates_to_consolidate[cleanRun.k]
               created == IF inserted THEN cleanRun.created \cup { date }
                          ELSE cleanRun.created
               last == cleanRun.k = Len(cleanRun.dates_to_consolidate)
           IN  /\ foodEntries' =
                      IF inserted
                      THEN Append(foodEntries,
                                  summary_entry(cleanRun.before, date, serial + 1))
                      ELSE foodEntries
               /\ serial' = IF inserted THEN serial + 1 ELSE serial
               /\ cleanRun' = [cleanRun EXCEPT
                      !.created = created,
                      !.k = IF last THEN 1 ELSE cleanRun.k + 1,
                      !.pc = IF ~last THEN "create"
                             ELSE IF created # {} THEN "remove" ELSE "done"]
    /\ UNCHANGED << storeOp, history, progress, localVars, filterVars, raceVars >>
    /\ UNCHANGED << chainVars, mealVars, normVars, scaleVars, logVars, goalVars >>

\* remove_individual_entries, lines 166-181, one entry of its loop: the
\* delete by id succeeds or fails.
RemoveIndividualEntry ==
    /\ cleanRun.pc = "remove"
    /\ \E removed \in BOOLEAN :
           LET id == cleanRun.entries_to_remove[cleanRun.k].id
               last == cleanRun.k = Len(cleanRun.entries_to_remove)
           IN  /\ foodEntries' =
                      IF removed
                      THEN SelectSeq(foodEntries, LAMBDA row : row.id # id)
                      ELSE foodEntries
               /\ cleanRun' = [cleanRun EXCEPT
                      !.deleted = IF removed THEN cleanRun.deleted \cup { id }
                                  ELSE cleanRun.deleted,
                      !.k = IF last THEN 1 ELSE cleanRun.k + 1,
                      !.pc = IF last THEN "done" ELSE "remove"]
    /\ UNCHANGED << serial, storeOp, history, progress, localVars, filterVars, raceVars >>
    /\ UNCHANGED << chainVars, mealVars, normVars, scaleVars, logVars, goalVars >>

NextClean ==
    \/ AnalyzeDuplicateCalories
    \/ CreateDailyCalorieSummary
    \/ RemoveIndividualEntry

SpecClean == InitClean /\ [][NextClean]_vars

(***************************************************************************)
(* Properties.                                                             *)
(***************************************************************************)
\* The provenance tier a source tag of the code stands for.
Tier(source) ==
    CASE source = "usda" -> "REMOTE"
      [] source \in { "local_database", "local_fallback" } -> "LOCAL"
      [] source \in { "not_found", "default" } -> "FALLBACK_DEFAULT"
      [] OTHER -> "UNTAGGED"

RemoteHit == \E i \in 1..Len(trace) : trace[i].source = "REMOTE" /\ trace[i].hit
AllRemoteMissed ==
    /\ queries > 0
    /\ \A i \in 1..Len(trace) : trace[i].source = "REMOTE" => ~trace[i].hit

\* The table holds a key equal to, containing or contained in the name.
RequestedKey == Strip(Lower(request.food_name))
TableMatches ==
    /\ nutritionFile = "present"
    /\ \E i \in 1..Len(NutritionDbFile) :
           \/ Contains(NutritionDbFile[i].key, RequestedKey)
           \/ Contains(RequestedKey, NutritionDbFile[i].key)
TableHasExact ==
    /\ nutritionFile = "present"
    /\ \E i \in 1..Len(NutritionDbFile) : NutritionDbFile[i].key = RequestedKey
ExactEntry ==
    NutritionDbFile[CHOOSE i \in 1..Len(NutritionDbFile) :
                        NutritionDbFile[i].key = RequestedKey].n

\* Grams the caller asked for (thousandths).
RequestedGrams ==
    IF entry = "get_nutrition" THEN request.quantity_g
    ELSE parse_quantity_to_grams(request.quantity)

\* C1: whatever the search requests and the table file do, a resolution
\* hands the caller a record, never an exception, and the record's source
\* tag stands for one of the tiers REMOTE, LOCAL, FALLBACK_DEFAULT.
C1_ReturnsTaggedRecord ==
    phase = "done" =>
        /\ ~result.exc
        /\ Tier(result.val.source) \in { "REMOTE", "LOCAL", "FALLBACK_DEFAULT" }

C1_Witness ==
    /\ phase = "done" /\ AllRemoteMissed /\ nutritionFile = "corrupt"
    /\ entry = "lookup_nutrition" /\ result.val.source = "not_found"

\* C2: the sources are consulted in the order REMOTE, LOCAL, default and
\* the chain stops at the first success: nothing is consulted after a
\* REMOTE success, REMOTE is never consulted after LOCAL, and a resolution
\* that saw a REMOTE success returns the remote values.
C2_FixedOrderFirstSuccess ==
    /\ \A i \in 1..Len(trace) :
           (trace[i].source = "REMOTE" /\ trace[i].hit) => i = Len(trace)
    /\ \A i, j \in 1..Len(trace) :
           (i < j /\ trace[i].source = "LOCAL") => trace[j].source # "REMOTE"
    /\ (phase = "done" /\ RemoteHit) => result.val.origin = "remote"

\* C3: one resolution sends at most one request to the food database.
C3_AtMostOneRemoteQuery == queries <= 1

\* C4: when every search request of a resolution fails or is empty, the
\* fallback goes to the local lookup without starting the chain again, and
\* the caller gets a LOCAL or FALLBACK_DEFAULT record.
C4_FallbackDoesNotReenter ==
    AllRemoteMissed =>
        /\ reentries = 0
        /\ phase = "done" =>
               Tier(result.val.source) \in { "LOCAL", "FALLBACK_DEFAULT" }

\* C5: the source tag of a returned record names the tier that produced
\* its values: REMOTE only for extracted search results, LOCAL only for a
\* matching table entry, the default tag only when neither matched.
C5_TagNamesProducingTier ==
    phase = "done" =>
        /\ Tier(result.val.source) = "REMOTE" => result.val.origin = "remote"
        /\ Tier(result.val.source) = "LOCAL" => result.val.origin = "local"
        /\ Tier(result.val.source) = "FALLBACK_DEFAULT" =>
               result.val.origin = "none"

C7_LocalScaledByGrams ==
    (phase = "done" /\ entry = "get_nutrition" /\ AllRemoteMissed
       /\ TableHasExact) =>
        /\ result.val.calories =
               RoundHalfEven(ExactEntry.calories * RequestedGrams, 100000)
        /\ result.val.protein_g =
               RoundHalfEven(ExactEntry.protein_g * RequestedGrams, 100000)
        /\ result.val.carbs_g =
               RoundHalfEven(ExactEntry.carbs_g * RequestedGrams, 100000)
        /\ result.val.fat_g =
               RoundHalfEven(ExactEntry.fat_g * RequestedGrams, 100000)
        /\ Tier(result.val.source) = "LOCAL"

\* The value the search result lists for a nutrient number (tenths; the
\* last listing counts, 0 if there is none).
RawValue(food_data, number) ==
    LET idx == { k \in 1..Len(food_data.foodNutrients) :
                     food_data.foodNutrients[k].nutrientNumber = number }
    IN  IF idx = {} THEN 0
        ELSE food_data.foodNutrients[CHOOSE k \in idx : \A m \in idx : m <= k].value

\* C8: the scaled calories are round(n.calories * g/100) and protein,
\* carbohydrate and fat are the scaled values rounded to one decimal, where
\* n are the values of the search result as listed: nothing is rounded or
\* truncated before the scaling.
C8_RoundedOnceAfterScaling ==
    extracted # NoMacros =>
        /\ extracted.calories =
               RoundHalfEven(RawValue(foodData, "208") * scaleGrams, 1000000)
        /\ extracted.protein_g =
               RoundHalfEven(RawValue(foodData, "203") * scaleGrams, 100000)
        /\ extracted.fat_g =
               RoundHalfEven(RawValue(foodData, "204") * scaleGrams, 100000)
        /\ extracted.carbs_g =
               RoundHalfEven(RawValue(foodData, "205") * scaleGrams, 100000)

\* C9: every non-empty phrase, a phrase of magnitude 0 included, gets a
\* gram value and a scaling factor strictly greater than 0.
C9_GramsPositive ==
    grams # -1 => (grams > 0 /\ scaling > 0)

\* The windows of the classifier as the documentation lists them.
MealOfHour(h) ==
    CASE h \in 5..10 -> "breakfast"
      [] h \in 11..14 -> "lunch"
      [] h \in 15..17 -> "snack"
      [] h \in 18..21 -> "dinner"
      [] h \in (22..23) \cup (0..4) -> "snack"

\* C10: detect_meal_time depends on the hour alone and maps every hour
\* 0..23 to the one category of its window: 5-10 breakfast, 11-14 lunch,
\* 15-17 snack, 18-21 dinner, 22-23 and 0-4 snack, whatever the minute.
C10_MealByHourWindow ==
    meal # "none" =>
        /\ meal \in { "breakfast", "lunch", "dinner", "snack" }
        /\ meal = MealOfHour(timestamp.hour)

C10_Witness ==
    /\ meal = "breakfast" /\ timestamp.hour = 10 /\ timestamp.minute = 59

\* The sum of value f over the items (those that carry macros) of a list
\* of items, and over every item of a list of entries.
RECURSIVE SumOfItems(_, _)
SumOfItems(items, f) ==
    IF items = << >> THEN 0
    ELSE (IF Head(items).has_macros THEN Head(items).macros[f] ELSE 0)
         + SumOfItems(Tail(items), f)
RECURSIVE SumOfEntries(_, _)
SumOfEntries(entries, f) ==
    IF entries = << >> THEN 0
    ELSE SumOfItems(Head(entries).items, f) + SumOfEntries(Tail(entries), f)

\* C11: after any sequence of store_food_data, delete_entry and
\* update_entry_quantity the totals reported for a day are the sums of
\* calories, protein, carbohydrate and fat over every item of every entry
\* stored for that day: the cached daily_macros never drift from the items.
C11_TotalsEqualItemSums ==
    \A day \in LogDays :
        \A f \in { "calories", "protein_g", "carbs_g", "fat_g" } :
            get_daily_totals_by_date(logs[day])[f] = SumOfEntries(logs[day].entries, f)

C11_Witness ==
    /\ logOp.op = "update_entry_quantity" /\ logOp.ret = "True"
    /\ logs["today"].kind = "dict" /\ Len(logs["today"].entries) = 2
    /\ logs["today"].daily_macros.calories > 0
    /\ logs["today"].daily_macros # logOp.before["today"].daily_macros
    /\ \E k \in 1..2 : Len(logs["today"].entries[k].items) = 2

\* C12: after a successful quantity edit (update_entry_quantity, PUT on an
\* entry, PUT on a session's items) every edited row holds the macros a
\* full resolution of its food name and its new quantity gives a newly
\* logged item: quantity and macros are never out of step.
C12_EditReResolvesMacros ==
    (/\ storeOp.op \in { "update_entry_quantity", "entry.do_PUT",
                         "entry-items.do_PUT" }
     /\ storeOp.ret \in { "True", "200" }) =>
        \A i \in 1..Len(foodEntries) :
            LET row == foodEntries[i]
                resolved == ItemResolution[row.food_name, row.quantity]
            IN  (/\ EqId(row, storeOp.id) \/ EqSessionId(row, storeOp.id)
                 /\ row.quantity = storeOp.quantity) =>
                    /\ row.calories = resolved.calories
                    /\ row.protein = resolved.protein_g
                    /\ row.carbs = resolved.carbs_g
                    /\ row.fat = resolved.fat_g

\* The sum of a column over the rows of a table stored for a date.
RECURSIVE ColumnSum(_, _, _)
ColumnSum(table, date, column) ==
    IF table = << >> THEN 0
    ELSE (IF Head(table).created_at = date THEN Head(table)[column] ELSE 0)
         + ColumnSum(Tail(table), date, column)

C14_CalorieProgress ==
    progress # NoProgress =>
        LET current == progress.current_calories
            goal == progress.goal_calories
            p == progress.progress_percentage
        IN  /\ current = ColumnSum(foodEntries, Today, "calories")
            /\ progress.remaining_calories >= 0
            /\ goal >= current => progress.remaining_calories = goal - current
            /\ goal < current => progress.remaining_calories = 0
            /\ goal = 0 => p = 0
            /\ goal > 0 => /\ 2 * (p * goal - current * 1000) <= goal
                           /\ 2 * (current * 1000 - p * goal) <= goal
            /\ progress.is_over_goal <=> current > goal
            /\ progress.is_over_goal => progress.remaining_calories = 0
            /\ (current = 1500 /\ goal = 1800) =>
                   /\ progress.remaining_calories = 300
                   /\ p = 833 /\ ~progress.is_over_goal

C14_Witness ==
    /\ progress.current_calories = 1500 /\ progress.goal_calories = 1800
    /\ progress.progress_percentage = 833 /\ userGoals = << >>

\* The earliest and the latest weight entry of the past month.
EarliestInWindow ==
    LET w == { i \in 1..Len(weightEntries) :
                 /\ Today - 30 <= weightEntries[i].created_at
                 /\ weightEntries[i].created_at <= Today }
    IN  weightEntries[CHOOSE i \in w : \A j \in w :
                          weightEntries[i].created_at <= weightEntries[j].created_at]
LatestInWindow ==
    LET w == { i \in 1..Len(weightEntries) :
                 /\ Today - 30 <= weightEntries[i].created_at
                 /\ weightEntries[i].created_at <= Today }
    IN  weightEntries[CHOOSE i \in w : \A j \in w :
                          weightEntries[j].created_at <= weightEntries[i].created_at]
\* p is num / den x 100 rounded to one decimal (den > 0).
IsPercentage(p, num, den) ==
    /\ 2 * (p * den - num * 1000) <= den
    /\ 2 * (num * 1000 - p * den) <= den

\* C15: with initial the earliest weight of the window and current the
\* latest, the progress to the goal is decided by comparing the goal with
\* initial: (initial - current) / (initial - goal) x 100 for goal < initial,
\* (current - initial) / (goal - initial) x 100 for goal > initial, 0 for
\* goal = initial, also when current has reached or passed the goal; for
\* 72.5, 70.0, 71.2 it is 52.0.
C15_ProgressComparesGoalWithInitial ==
    (weightSummary.entries_count > 0 /\ weightSummary.goal_weight # 0) =>
        LET initial == EarliestInWindow.weight_kg
            current == LatestInWindow.weight_kg
            goal == weightSummary.goal_weight
            p == weightSummary.progress_to_goal
        IN  /\ goal < initial => IsPercentage(p, initial - current, initial - goal)
            /\ goal > initial => IsPercentage(p, current - initial, goal - initial)
            /\ goal = initial => p = 0
            /\ (initial = 725 /\ goal = 700 /\ current = 712) => p = 520

\* C16: a goal update whose calorie goal is outside [800, 5000] or whose
\* weight goal is outside [20, 300] kg, and a weight entry whose weight is
\* outside [20, 300] kg, gets an error response, and the stored goals and
\* weight entries are what they were before the request.
OutOfRange(data, key, low, high) ==
    Has(data, key) /\ (data[key] < low \/ data[key] > high)
UnknownInLogs(entry_id, files) ==
    \A day \in LogDays : \A k \in 1..Len(files[day].entries) :
        files[day].entries[k].id # entry_id
UnknownInTable(entry_id, table) ==
    \A i \in 1..Len(table) :
        ~EqSessionId(table[i], entry_id) /\ ~EqId(table[i], entry_id)
C17_UnknownIdReturnsFalse ==
    /\ ( /\ logOp.op \in { "delete_entry", "update_entry_quantity" }
         /\ UnknownInLogs(logOp.id, logOp.before) )
        => (logOp.ret = "False" /\ logs = logOp.before)
    /\ ( /\ storeOp.op \in { "delete_entry", "update_entry_quantity" }
         /\ UnknownInTable(storeOp.id, storeOp.before) )
        => (storeOp.ret = "False" /\ foodEntries = storeOp.before)
\* A quantity update with an id no entry has, on a day with stored entries.
C17_Witness ==
    /\ logOp.op = "update_entry_quantity"
    /\ UnknownInLogs(logOp.id, logOp.before)
    /\ logOp.before["today"].kind = "dict"
    /\ Len(logOp.before["today"].entries) > 0
    /\ logOp.ret = "False"

C19_MagnitudeIsFirstNumber ==
    grams # -1 =>
        LET s == Strip(Lower(phrase))
        IN  magnitude =
                IF HasNumber(s) THEN FloatOfToken(FirstNumberToken(s))
                ELSE IF Contains(s, KwHalf) THEN 500
                ELSE IF Contains(s, KwQuarter) THEN 250
                ELSE 1000

\* The factor (in hundredths of a gram) of the first keyword of the claimed
\* priority order; 0 for the count class, whose factor is not a number of
\* grams.
ClaimedFactor(s) ==
    IF Contains(s, KwKilogram) \/ Contains(s, KwKilo) THEN 100000
    ELSE IF Contains(s, KwGram) THEN 100
    ELSE IF Contains(s, KwCup) THEN 15000
    ELSE IF Contains(s, KwTablespoon) THEN 1500
    ELSE IF Contains(s, KwTeaspoon) THEN 500
    ELSE IF Contains(s, KwScoop) THEN 3000
    ELSE IF Contains(s, KwPiece) \/ Contains(s, KwNotSpecified) THEN 0
    ELSE IF Contains(s, KwPound) \/ Contains(s, KwLb) THEN 45360
    ELSE IF Contains(s, KwOz) THEN 2835
    ELSE 10000
\* C20: the gram equivalent of a phrase with a number is that number times
\* the factor of the first keyword matching in the order kilogram/kilo
\* (x1000), gram (x1), cup (x150), tablespoon (x15), teaspoon (x5), scoop
\* (x30), piece / not specified, pound/lb (x453.6), oz (x28.35), and number
\* x 100 when no keyword matches; '2 kilograms' is 2000 g.
C20_GramsByKeywordPriority ==
    (grams # -1 /\ HasNumber(phrase)) =>
        LET s == Strip(Lower(phrase))
            value == FloatOfToken(FirstNumberToken(s))
            factor == ClaimedFactor(s)
        IN  factor # 0 =>
                grams = value * (factor \div 100) + (value * (factor % 100)) \div 100

\* C21: a search result that lacks one of the nutrient codes 208, 203, 204,
\* 205 counts as a REMOTE failure: the chain goes on to the LOCAL lookup
\* and the caller never gets a REMOTE-tagged record whose missing
\* nutrients are zeros.
C21_MissingCodesFallThrough ==
    \A i \in 1..Len(trace) :
        (trace[i].source = "REMOTE" /\ trace[i].lacking) =>
            /\ ~trace[i].hit
            /\ phase = "done" => Tier(result.val.source) # "REMOTE"

\* C22: the LOCAL lookup takes the entry whose key is the lower-cased,
\* trimmed name whenever the table has one; otherwise the first entry, in
\* insertion order, whose key contains the name or is contained in it.  An
\* exact match is never displaced by an earlier substring match, and the
\* earliest substring match wins.
C22_ExactThenEarliestSubstring ==
    localMatch # NoMatch =>
        LET q == Strip(Lower(foodName))
            exact == { i \in 1..Len(nutritionDb) : nutritionDb[i].key = q }
            partial == { i \in 1..Len(nutritionDb) :
                           \/ Contains(nutritionDb[i].key, q)
                           \/ Contains(q, nutritionDb[i].key) }
            Taken(i) ==
                IF exact # {} THEN i \in exact
                ELSE IF partial # {}
                THEN i \in partial /\ \A k \in partial : i <= k
                ELSE i = 0
        IN  Taken(localMatch.local) /\ Taken(localMatch.edit)
\* "rice" looked up in a table that lists "brown rice" before "rice".
C22_Witness ==
    /\ localMatch # NoMatch
    /\ Strip(Lower(foodName)) = FoodRice
    /\ Len(nutritionDb) >= 2
    /\ nutritionDb[1].key = FoodBrownRice
    /\ nutritionDb[localMatch.local].key = FoodRice
    /\ localMatch.local > 1

\* A description that holds one of the words breaded, fried, cooked,
\* prepared, seasoned, marinated, stuffed, in whatever case.
HasProcessedWord(food) ==
    \E word \in { <<"b","r","e","a","d","e","d">>, <<"f","r","i","e","d">>,
                  <<"c","o","o","k","e","d">>, <<"p","r","e","p","a","r","e","d">>,
                  <<"s","e","a","s","o","n","e","d">>,
                  <<"m","a","r","i","n","a","t","e","d">>,
                  <<"s","t","u","f","f","e","d">> } :
        Contains(Lower(food.description), word)
Occurrences(foods, food) == Cardinality({ i \in 1..Len(foods) : foods[i] = food })

\* C23: the preference filter returns a permutation of the search results
\* in which every result without a processed keyword precedes every result
\* with one, the order inside each group being that of the search; so the
\* best match is a processed result only when the search has no raw one.
C23_RawBeforeProcessed ==
    filteredFoods # NotFiltered =>
        /\ Len(filteredFoods) = Len(searchFoods)
        /\ \A food \in SearchResults :
               Occurrences(filteredFoods, food) = Occurrences(searchFoods, food)
        /\ \A i, j \in 1..Len(filteredFoods) :
               (~HasProcessedWord(filteredFoods[i]) /\ HasProcessedWord(filteredFoods[j]))
                   => i < j
        /\ SelectSeq(filteredFoods, HasProcessedWord)
               = SelectSeq(searchFoods, HasProcessedWord)
        /\ SelectSeq(filteredFoods, LAMBDA f : ~HasProcessedWord(f))
               = SelectSeq(searchFoods, LAMBDA f : ~HasProcessedWord(f))
        /\ (filteredFoods # << >> /\ HasProcessedWord(filteredFoods[1]))
               => \A i \in 1..Len(searchFoods) : HasProcessedWord(searchFoods[i])
\* Fried, raw, breaded in the search: raw comes first, then fried, breaded.
C23_Witness ==
    /\ searchFoods = << RecChickenFried, RecChickenRaw, RecChickenBreaded >>
    /\ filteredFoods = << RecChickenRaw, RecChickenFried, RecChickenBreaded >>

\* C24: every entry store_food_data has persisted carries an id, the items
\* it was given, and a meal_type equal to detect_meal_time of its timestamp
\* with the emoji of that meal (an entry stored at 08:30 is a breakfast).
C24_EntryCarriesMealType ==
    \A day \in LogDays : \A k \in 1..Len(logs[day].entries) :
        LET e == logs[day].entries[k]
        IN  (logs[day].kind = "dict" /\ e.id # 0) =>
                /\ "id" \in DOMAIN e /\ "items" \in DOMAIN e
                /\ "meal_type" \in DOMAIN e
                /\ "meal_emoji" \in DOMAIN e
                /\ e.meal_type = detect_meal_time(e.timestamp)
                /\ e.timestamp = [hour |-> 8, minute |-> 30] => e.meal_type = "breakfast"

\* C25: a successful delete by a session id removes every row of that
\* session and nothing else: no stored row has the session id afterwards,
\* and the rows of the other sessions, their order and so their totals are
\* what they were; in the log files the entry with the id is gone and every
\* other entry is unchanged.
C25_DeleteRemovesOnlyTheSession ==
    /\ ( /\ storeOp.op \in { "delete_entry", "entry.do_DELETE" }
         /\ storeOp.id.type = "session"
         /\ storeOp.ret \in { "True", "200" } )
        => /\ \A i \in 1..Len(foodEntries) :
                  foodEntries[i].session_id # storeOp.id.n
           /\ foodEntries = SelectSeq(storeOp.before,
                                LAMBDA row : row.session_id # storeOp.id.n)
           /\ \E i \in 1..Len(storeOp.before) :
                  storeOp.before[i].session_id = storeOp.id.n
    /\ (logOp.op = "delete_entry" /\ logOp.ret = "True")
        => /\ logs["yesterday"] = logOp.before["yesterday"]
           /\ logs["today"].entries = SelectSeq(logOp.before["today"].entries,
                                          LAMBDA e : e.id # logOp.id)
           /\ \A f \in { "calories", "protein_g", "carbs_g", "fat_g" } :
                  logs["today"].daily_macros[f] = SumOfEntries(logs["today"].entries, f)
\* One of two stored sessions is deleted and the row of the other stays.
C25_Witness ==
    /\ storeOp.op = "delete_entry" /\ storeOp.id.type = "session"
    /\ storeOp.ret = "True"
    /\ Len(storeOp.before) = 2 /\ Len(foodEntries) = 1
    /\ foodEntries[1].session_id # storeOp.id.n

\* C26: the user goal is a singleton: at most one user_goals row exists in
\* every reachable state, also when two update_user_goals calls interleave
\* on an empty table, each making its existence check before the other's
\* insert.
C26_GoalsSingleton == Len(userGoals) <= 1

\* C27: for every quantity phrase the grams of the REMOTE path
\* (parse_quantity_to_grams) and the scaling of the LOCAL path
\* (_calculate_macros: scaling factor x 100 g) are the same mass, so a food
\* is scaled alike whichever source answers ('2 kilograms', '1 scoop',
\* '1 piece', '150g' included).
C27_BothPathsSameMass ==
    grams # -1 =>
        grams * (scaling_factor(phrase)[2] \div 1000) = scaling * 100

\* C28: a goal update that supplies only some of calorie_goal, protein_goal
\* and weight_goal_kg changes only those: the stored value of every
\* omitted field is after the update what it was before.
C28_OmittedFieldsKept ==
    ( /\ goalOp.op = "update_user_goals" /\ goalOp.status = 200
      /\ goalOp.goals_before # << >> ) =>
        \A field \in { "calorie_goal", "protein_goal", "weight_goal_kg" } :
            ~Has(goalOp.data, field) =>
                userGoals[1][field] = goalOp.goals_before[1][field]

\* C29: when two store_food_data calls for one day run concurrently against
\* the file store, then after both have returned True the day's log holds
\* both entries and its daily_macros covers both: no entry is lost to an
\* interleaving of the two read-modify-write sequences.
C29_NoEntryLost ==
    (\A r \in Requests : storeRequests[r].pc = "True") =>
        /\ \A r \in Requests :
               \E k \in 1..Len(logs["today"].entries) :
                   logs["today"].entries[k] = storeRequests[r].entry[1]
        /\ \A f \in { "calories", "protein_g", "carbs_g", "fat_g" } :
               logs["today"].daily_macros[f] =
                   SumOfItems(storeRequests["r1"].entry[1].items, f)
                   + SumOfItems(storeRequests["r2"].entry[1].items, f)
                   + SumOfEntries(logOp.before["today"].entries, f)


\* C30: when clean_duplicate_calories.main has finished, every date of its
\* window has the same sums of calories, protein, carbs and fat over the
\* stored rows as before the run, also when the summary insert failed for
\* some dates, and a row is deleted only when the summary of its date was
\* created.
C30_ConsolidationPreservesTotals ==
    cleanRun.pc = "done" =>
        /\ \A date \in (Today - DaysBack)..Today :
               \A column \in { "calories", "protein", "carbs", "fat" } :
                   ColumnSum(foodEntries, date, column)
                       = ColumnSum(cleanRun.before, date, column)
        /\ \A k \in 1..Len(cleanRun.before) :
               (\A j \in 1..Len(foodEntries) :
                    foodEntries[j].id # cleanRun.before[k].id)
                   => cleanRun.before[k].created_at \in cleanRun.created

=============================================================================
